---- MODULE Spec2Model ----
(***************************************************************************)
(* A model of rustle's search engine (src/src/search.rs, src/src/utils.rs). *)
(*                                                                         *)
(* Strings are sequences of Unicode code points, paths are sequences of    *)
(* components (the first one the drive, "D:"), Option<i64> is <<>> for     *)
(* None and <<v>> for Some(v).                                             *)
(***************************************************************************)
EXTENDS Integers, Sequences, FiniteSets, TLC

VARIABLES
    fs,                  \* the filesystem: node of Universe -> "none" | "file" | "dir"
                         \* | "locked" (a directory that cannot be read)
    fsChanges,           \* number of changes the environment has made to fs (in the
                         \* index runs: since the last scan began)
    search_paths,        \* SearchEngine.config.search_paths
    extra_search_paths,  \* SearchEngine.extra_search_paths
    applications,        \* SearchEngine.applications (the Application Index)
    pc,                  \* "idle" | "searching" | "collected": where search() is
    query,               \* the argument of the search in progress / last returned
    grouped,             \* search()'s local `grouped`
    unique_paths,        \* search_files_and_folders()'s local `unique_paths`
    task,                \* one record per root task of the par_iter
    folders,             \* the shared Mutex<Vec<SearchResult>> `folders`
    files,               \* the shared Mutex<Vec<SearchResult>> `files`
    result,              \* what the last call of search() returned
    returned,            \* TRUE once the last call of search() has returned
    peer,                \* a second caller's search(): its pc, query, grouped,
                         \* unique_paths, task, folders, files, result, returned
    hk,                  \* the HotkeyManager (hotkey.rs), the static
                         \* HOTKEY_REGISTERED and the hotkey the OS holds
    loop,                  \* one root task's entry loop, entry by entry: its
                         \* counters (search.rs 665-740)
    sc_name,             \* scoring harness: the candidate name
    sc_query,            \* scoring harness: the raw query
    sc_out,              \* scoring harness: what calculate_score returned
    sc_done,             \* scoring harness: TRUE once the pair was scored
    win                  \* the launcher window: its WindowState and its timers

vars == <<fs, fsChanges, search_paths, extra_search_paths, applications, pc, query,
          grouped, unique_paths, task, folders, files, result, returned, peer,
          hk, loop, sc_name, sc_query, sc_out, sc_done, win>>

engineVars == <<fs, fsChanges, search_paths, extra_search_paths, applications, pc,
                query, grouped, unique_paths, task, folders, files, result, returned,
                peer>>

scoreVars == <<sc_name, sc_query, sc_out, sc_done>>

\* what no step of a search or of a refresh touches
sideVars == <<sc_name, sc_query, sc_out, sc_done, peer, hk, loop, win>>

-----------------------------------------------------------------------------
(* Generic helpers on sequences.                                           *)

RECURSIVE Flatten(_)
Flatten(ss) == IF ss = <<>> THEN <<>> ELSE Head(ss) \o Flatten(Tail(ss))

RECURSIVE SumSeq(_)
SumSeq(s) == IF s = <<>> THEN 0 ELSE Head(s) + SumSeq(Tail(s))

Take(s, n) == SubSeq(s, 1, IF Len(s) < n THEN Len(s) ELSE n)

IsPrefix(p, s) == Len(p) <= Len(s) /\ SubSeq(s, 1, Len(p)) = p

IsSuffix(p, s) == Len(p) <= Len(s) /\ SubSeq(s, Len(s) - Len(p) + 1, Len(s)) = p

Contains(s, t) == \E i \in 0..(Len(s) - Len(t)) : SubSeq(s, i + 1, i + Len(t)) = t

None == <<>>

Some(v) == <<v>>

-----------------------------------------------------------------------------
(* Characters: what the std and unicode-normalization calls of the source  *)
(* do on ASCII, Latin-1 and the combining marks U+0300..U+036F.            *)

\* char::len_utf8: str::len() and String::len() count bytes, not characters
len_utf8(c) == IF c < 128 THEN 1 ELSE IF c < 2048 THEN 2 ELSE IF c < 65536 THEN 3 ELSE 4

\* str::len()
str_len(s) == SumSeq([i \in DOMAIN s |-> len_utf8(s[i])])

\* char::to_lowercase (one-to-one on the modelled range; sharp s, 223, is lower case)
lower_char(c) ==
    IF c >= 65 /\ c <= 90 THEN c + 32
    ELSE IF c >= 192 /\ c <= 222 /\ c # 215 THEN c + 32
    ELSE c

\* str::to_lowercase
to_lowercase(s) == [i \in DOMAIN s |-> lower_char(s[i])]

\* canonical decomposition of one character (unicode_normalization's nfd):
\* the accented Latin-1 letters the model uses, base letter + combining mark
nfd_char(c) ==
    CASE c = 233 -> <<101, 769>>   \* e acute
      [] c = 201 -> <<69, 769>>    \* E acute
      [] c = 252 -> <<117, 776>>   \* u diaeresis
      [] c = 220 -> <<85, 776>>    \* U diaeresis
      [] c = 241 -> <<110, 771>>   \* n tilde
      [] c = 209 -> <<78, 771>>    \* N tilde
      [] OTHER -> <<c>>

nfd(s) == Flatten([i \in DOMAIN s |-> nfd_char(s[i])])

\* char::is_alphanumeric: letters and digits; the combining marks 768..879 are
\* category Mn and not Alphabetic (837 apart), punctuation and symbols are not
is_alphanumeric(c) ==
    \/ c >= 48 /\ c <= 57
    \/ c >= 65 /\ c <= 90
    \/ c >= 97 /\ c <= 122
    \/ c \in {170, 181, 186}
    \/ c >= 192 /\ c <= 255 /\ c # 215 /\ c # 247
    \/ c = 837

\* char::is_whitespace
is_whitespace(c) == c \in {9, 10, 11, 12, 13, 32, 133, 160}

is_uppercase(c) == (c >= 65 /\ c <= 90) \/ (c >= 192 /\ c <= 222 /\ c # 215)

RECURSIVE FilterChars(_)
FilterChars(s) ==
    IF s = <<>> THEN <<>>
    ELSE IF is_alphanumeric(Head(s)) \/ is_whitespace(Head(s))
         THEN <<Head(s)>> \o FilterChars(Tail(s))
         ELSE FilterChars(Tail(s))

\* normalize_for_search without the decomposition: Thm_C10 does not hold of it
normalize_for_search_no_nfd(s) == FilterChars(to_lowercase(s))

\* utils.rs normalize_for_search: lowercase, NFD, keep alphanumerics and whitespace
normalize_for_search(s) == FilterChars(nfd(to_lowercase(s)))

-----------------------------------------------------------------------------
(* The fuzzy matcher (SkimMatcherV2::default().smart_case()).              *)

\* smart case: the match is case sensitive iff the pattern has an upper-case letter
case_sensitive(pattern) == \E i \in DOMAIN pattern : is_uppercase(pattern[i])

\* a.eq_ignore_ascii_case(b) unless case sensitive
ascii_lower(c) == IF c >= 65 /\ c <= 90 THEN c + 32 ELSE c

char_equal(a, b, cs) == IF cs THEN a = b ELSE ascii_lower(a) = ascii_lower(b)

\* the positions of the leftmost embedding of pattern in choice, <<>> if none
RECURSIVE MatchFrom(_, _, _, _)
MatchFrom(choice, pattern, from, cs) ==
    IF pattern = <<>> THEN <<>>
    ELSE LET hits == {i \in from..Len(choice) : char_equal(choice[i], Head(pattern), cs)}
         IN  IF hits = {} THEN <<0>>
             ELSE LET i == CHOOSE j \in hits : \A k \in hits : j <= k
                  IN  <<i>> \o MatchFrom(choice, Tail(pattern), i + 1, cs)

IsSubsequence(pattern, choice) ==
    LET m == MatchFrom(choice, pattern, 1, case_sensitive(pattern))
    IN  \A i \in DOMAIN m : m[i] # 0

\* The score of a match.  The crate's dynamic programme is not part of the
\* repository; what the engine relies on is kept: the score is a function of
\* (choice, pattern) alone, it rewards each matched character, a match at the
\* start of a word and consecutive matches, and it charges the leading gap.
skim_score(choice, pattern) ==
    LET m == MatchFrom(choice, pattern, 1, case_sensitive(pattern))
        atWordStart(i) == m[i] = 1 \/ (m[i] > 1 /\ is_whitespace(choice[m[i] - 1]))
        consecutive(i) == i > 1 /\ m[i] = m[i - 1] + 1
    IN  SumSeq([i \in DOMAIN m |->
                  16 + (IF atWordStart(i) THEN 8 ELSE 0) + (IF consecutive(i) THEN 4 ELSE 0)])
        - (IF m[1] - 1 < 6 THEN m[1] - 1 ELSE 6)

\* a matcher that rejects nothing: Thm_C12 does not hold of it
fuzzy_match_any(choice, pattern) == Some(0)

\* FuzzyMatcher::fuzzy_match(choice, pattern): None unless the pattern is an ordered
\* subsequence of the choice; the empty pattern matches everything with score 0
fuzzy_match(choice, pattern) ==
    IF pattern = <<>> THEN Some(0)
    ELSE IF choice = <<>> THEN None
    ELSE IF ~IsSubsequence(pattern, choice) THEN None
    ELSE Some(skim_score(choice, pattern))

-----------------------------------------------------------------------------
(* SearchEngine::calculate_score (search.rs 505-550).                      *)

\* name_lower.split_whitespace().any(|word| word.starts_with(query_lower))
word_start_match(name_lower, query_lower) ==
    \E i \in DOMAIN name_lower :
        /\ ~is_whitespace(name_lower[i])
        /\ (i = 1 \/ is_whitespace(name_lower[i - 1]))
        /\ i + Len(query_lower) - 1 <= Len(name_lower)
        /\ SubSeq(name_lower, i, i + Len(query_lower) - 1) = query_lower
        /\ \A k \in i..(i + Len(query_lower) - 1) : ~is_whitespace(name_lower[k])

exact_bonus(name_lower, query_lower) == IF name_lower = query_lower THEN 1000 ELSE 0

\* calculate_score without the bonus for a prefix match: Thm_C11 does not hold
\* of it
prefix_bonus_none(name_lower, query_lower) == 0

prefix_bonus(name_lower, query_lower) == IF IsPrefix(query_lower, name_lower) THEN 500 ELSE 0

word_bonus(name_lower, query_lower) ==
    IF word_start_match(name_lower, query_lower) THEN 200 ELSE 0

\* name.len() is the length in bytes
length_bonus(name) ==
    (IF str_len(name) < 20 THEN (20 - str_len(name)) * 5 ELSE 0)
    - (IF str_len(name) > 50 THEN 50 ELSE 0)

\* search.rs 519-549: the bonuses added to the base score of a match
final_score(base_score, name, name_lower, query_lower) ==
    IF base_score = None THEN None
    ELSE Some(base_score[1]
              + exact_bonus(name_lower, query_lower)
              + prefix_bonus(name_lower, query_lower)
              + word_bonus(name_lower, query_lower)
              + length_bonus(name))

calculate_score(name, normalized_query, query_lower) ==
    final_score(fuzzy_match(normalize_for_search(name), normalized_query),
                name, to_lowercase(name), query_lower)

\* what search() passes to calculate_score for a raw query (search.rs 455-461)
score_for_query(name, q) == calculate_score(name, normalize_for_search(q), to_lowercase(q))

-----------------------------------------------------------------------------
(* The strings of the modelled machine.                                    *)

s_Users == <<85, 115, 101, 114, 115>>   \* "Users"
s_Notes == <<78, 111, 116, 101, 115>>   \* "Notes"
s_notes_txt == <<110, 111, 116, 101, 115, 46, 116, 120, 116>>   \* "notes.txt"
s_node_modules == <<110, 111, 100, 101, 95, 109, 111, 100, 117, 108, 101, 115>>   \* "node_modules"
s_nova == <<110, 111, 118, 97>>   \* "nova"
s_dot_notes == <<46, 110, 111, 116, 101, 115>>   \* ".notes"
s_Roaming == <<82, 111, 97, 109, 105, 110, 103>>   \* "Roaming"
s_Microsoft == <<77, 105, 99, 114, 111, 115, 111, 102, 116>>   \* "Microsoft"
s_Windows == <<87, 105, 110, 100, 111, 119, 115>>   \* "Windows"
s_Start_Menu == <<83, 116, 97, 114, 116, 32, 77, 101, 110, 117>>   \* "Start Menu"
s_Programs == <<80, 114, 111, 103, 114, 97, 109, 115>>   \* "Programs"
s_Program_Files == <<80, 114, 111, 103, 114, 97, 109, 32, 70, 105, 108, 101, 115>>   \* "Program Files"
s_Program_Files_x86 == <<80, 114, 111, 103, 114, 97, 109, 32, 70, 105, 108, 101, 115, 32, 40, 120, 56, 54, 41>>   \* "Program Files (x86)"
s_RECYCLE_BIN == <<36, 82, 69, 67, 89, 67, 76, 69, 46, 66, 73, 78>>   \* "$RECYCLE.BIN"
s_Notion_lnk == <<78, 111, 116, 105, 111, 110, 46, 108, 110, 107>>   \* "Notion.lnk"
s_Node_js == <<78, 111, 100, 101, 46, 106, 115>>   \* "Node.js"
s_Games == <<71, 97, 109, 101, 115>>   \* "Games"
s_Media == <<77, 101, 100, 105, 97>>   \* "Media"
s_Edge_Lnk == <<69, 100, 103, 101, 46, 76, 110, 107>>   \* "Edge.Lnk"
s_lnk == <<108, 110, 107>>   \* "lnk"
s_dot_lnk == <<46, 108, 110, 107>>   \* ".lnk"
s_dot_LNK == <<46, 76, 78, 75>>   \* ".LNK"

\* "C:", "D:", ... from a drive letter (format!("{}:\\", drive_letter))
drive(letter) == <<letter, 58>>

-----------------------------------------------------------------------------
(* Paths and the filesystem.                                               *)

\* the directories the environment reports (the dirs crate)
home_dir == <<drive(67), s_Users, <<109, 101>>>>   \* "me"

document_dir == home_dir \o <<<<68, 111, 99, 117, 109, 101, 110, 116, 115>>>>   \* "Documents"

picture_dir == home_dir \o <<<<80, 105, 99, 116, 117, 114, 101, 115>>>>   \* "Pictures"

\* dirs::data_dir(): %APPDATA%
data_dir == home_dir \o <<<<65, 112, 112, 68, 97, 116, 97>>, s_Roaming>>   \* "AppData"

\* index_applications (search.rs 383-390): data_dir().parent() joined with
\* Roaming\Microsoft\Windows\Start Menu\Programs
user_start ==
    SubSeq(data_dir, 1, Len(data_dir) - 1)
        \o <<s_Roaming, s_Microsoft, s_Windows, s_Start_Menu, s_Programs>>

\* search.rs 398
system_start ==
    <<drive(67), <<80, 114, 111, 103, 114, 97, 109, 68, 97, 116, 97>>, s_Microsoft, s_Windows, s_Start_Menu, s_Programs>>   \* "ProgramData"

\* a project directory in the documents, and the notes kept on the data drive
work_dir == document_dir \o <<<<87, 111, 114, 107>>>>   \* "Work"

data_notes == <<drive(68), s_Users, s_Notes>>

\* Every entry the modelled machine can hold, parents before children and
\* siblings in directory order; kind is what the entry is when the engine is
\* built ("none": the entry is there on other machines only).  The ancestors of the two Start Menu directories are not listed: both
\* lie below a directory every walk prunes (AppData, ProgramData).  The user
\* Start Menu directory is case sensitive (a per-directory NTFS attribute): it
\* holds WinZip.lnk and WINZIP.LNK side by side.
Universe == <<
    [path |-> <<drive(67)>>, kind |-> "dir"],
    [path |-> <<drive(67), s_Users>>, kind |-> "dir"],
    [path |-> home_dir, kind |-> "dir"],
    [path |-> home_dir \o <<s_dot_notes>>, kind |-> "dir"],
    [path |-> home_dir \o <<s_dot_notes, <<110, 111, 116, 101, 115, 46, 109, 100>>>>, kind |-> "file"],   \* "notes.md"
    [path |-> document_dir, kind |-> "dir"],
    [path |-> work_dir, kind |-> "dir"],
    [path |-> work_dir \o <<s_Notes>>, kind |-> "dir"],
    [path |-> work_dir \o <<s_node_modules>>, kind |-> "dir"],
    [path |-> work_dir \o <<s_node_modules, <<110, 111, 116, 101, 46, 106, 115>>>>, kind |-> "file"],   \* "note.js"
    [path |-> work_dir \o <<s_notes_txt>>, kind |-> "file"],
    [path |-> work_dir \o <<s_nova>>, kind |-> "file"],
    [path |-> work_dir \o <<<<83, 248, 114, 101, 110, 46, 116, 120, 116>>>>, kind |-> "file"],   \* "Soren.txt", its o being U+00F8
    [path |-> user_start, kind |-> "dir"],
    [path |-> user_start \o <<<<78, 111, 116, 101, 112, 97, 100, 46, 108, 110, 107>>>>, kind |-> "file"],   \* "Notepad.lnk"
    [path |-> user_start \o <<<<87, 105, 110, 90, 105, 112, 46, 108, 110, 107>>>>, kind |-> "file"],   \* "WinZip.lnk"
    [path |-> user_start \o <<<<87, 73, 78, 90, 73, 80, 46, 76, 78, 75>>>>, kind |-> "file"],   \* "WINZIP.LNK"
    [path |-> user_start \o <<<<78, 101, 114, 111, 46, 108, 110, 107>>>>, kind |-> "file"],   \* "Nero.lnk"
    [path |-> user_start \o <<s_Notion_lnk>>, kind |-> "none"],
    [path |-> user_start \o <<s_Edge_Lnk>>, kind |-> "none"],
    [path |-> user_start \o <<<<77, 121, 32, 78, 111, 116, 101, 115, 46, 108, 110, 107>>>>, kind |-> "file"],   \* "My Notes.lnk"
    [path |-> user_start \o <<<<85, 110, 105, 110, 115, 116, 97, 108, 108, 32, 78, 111, 116, 101, 112, 97, 100, 46, 108, 110, 107>>>>, kind |-> "file"],   \* "Uninstall Notepad.lnk"
    [path |-> user_start \o <<<<114, 101, 97, 100, 109, 101, 46, 116, 120, 116>>>>, kind |-> "file"],   \* "readme.txt"
    [path |-> system_start, kind |-> "dir"],
    [path |-> system_start \o <<<<79, 110, 101, 78, 111, 116, 101, 46, 108, 110, 107>>>>, kind |-> "file"],   \* "OneNote.lnk"
    [path |-> system_start \o <<<<78, 111, 116, 101, 112, 97, 100, 43, 43, 46, 108, 110, 107>>>>, kind |-> "file"],   \* "Notepad++.lnk"
    [path |-> system_start \o <<<<71, 111, 111, 103, 108, 101, 32, 67, 104, 114, 111, 109, 101, 46, 108, 110, 107>>>>, kind |-> "file"],   \* "Google Chrome.lnk"
    [path |-> system_start \o <<<<65, 98, 111, 117, 116, 46, 108, 110, 107>>>>, kind |-> "file"],   \* "About.lnk"
    [path |-> system_start \o <<s_Node_js>>, kind |-> "dir"],
    [path |-> system_start \o <<s_Node_js, <<78, 111, 100, 101, 46, 108, 110, 107>>>>, kind |-> "file"],   \* "Node.lnk"
    [path |-> <<drive(67), s_Games>>, kind |-> "none"],
    [path |-> <<drive(67), s_Program_Files>>, kind |-> "none"],
    [path |-> <<drive(68)>>, kind |-> "dir"],
    [path |-> <<drive(68), s_RECYCLE_BIN>>, kind |-> "dir"],
    [path |-> <<drive(68), s_RECYCLE_BIN, s_notes_txt>>, kind |-> "file"],
    [path |-> <<drive(68), s_Users>>, kind |-> "dir"],
    [path |-> data_notes, kind |-> "dir"],
    [path |-> data_notes \o <<<<78, 111, 116, 101, 98, 111, 111, 107, 115>>>>, kind |-> "dir"],   \* "Notebooks"
    [path |-> data_notes \o <<<<78, 111, 116, 101, 98, 111, 111, 107, 115>>, <<50, 48, 50, 52>>>>, kind |-> "dir"],   \* "Notebooks\2024"
    [path |-> data_notes \o <<<<78, 111, 116, 101, 98, 111, 111, 107, 115>>, <<50, 48, 50, 52>>, <<113, 51, 46, 99, 115, 118>>>>, kind |-> "file"],   \* "Notebooks\2024\q3.csv"
    [path |-> data_notes \o <<<<110, 111, 100, 101, 106, 115>>>>, kind |-> "dir"],   \* "nodejs"
    [path |-> data_notes \o <<<<110, 111, 114>>>>, kind |-> "dir"],   \* "nor"
    [path |-> data_notes \o <<<<110, 111, 116, 101, 49, 46, 109, 100>>>>, kind |-> "file"],   \* "note1.md"
    [path |-> data_notes \o <<<<110, 111, 116, 101, 50, 46, 109, 100>>>>, kind |-> "file"],   \* "note2.md"
    [path |-> data_notes \o <<<<110, 111, 118, 101, 108, 46, 112, 100, 102>>>>, kind |-> "file"],   \* "novel.pdf"
    [path |-> data_notes \o <<<<110, 111, 111, 107, 98, 111, 111, 107, 46, 116, 120, 116>>>>, kind |-> "file"],   \* "nookbook.txt"
    [path |-> <<drive(68), <<110, 111, 114, 116, 104, 46, 106, 115, 111, 110>>>>, kind |-> "file"],   \* "north.json"
    [path |-> <<drive(68), <<110, 111, 116, 101>>>>, kind |-> "file"],   \* "note"
    [path |-> <<drive(68), s_Media>>, kind |-> "none"],
    [path |-> <<drive(65)>>, kind |-> "none"],
    [path |-> <<drive(65), s_Media>>, kind |-> "none"] >>

Nodes == DOMAIN Universe

\* the entries the environment changes while the engine lives: a document that
\* is replaced by a directory of the same name (and back), a shortcut that is
\* installed and removed
Mutable ==
    { n \in Nodes : Universe[n].path \in { work_dir \o <<s_nova>>,
                                           user_start \o <<s_Notion_lnk>> } }

\* the kinds a mutable entry alternates between
other_kind(n, k) ==
    IF Universe[n].path = work_dir \o <<s_nova>>
    THEN (IF k = "file" THEN "dir" ELSE "file")
    ELSE (IF k = "none" THEN "file" ELSE "none")

\* GetLogicalDrives(): the letters A, C and D
logical_drives == <<65, 67, 68>>

\* path.to_string_lossy().to_lowercase(), kept as lower-cased components
path_lower(p) == [i \in DOMAIN p |-> to_lowercase(p[i])]

\* path.to_string_lossy(): "D:\" for a drive root, components joined by '\'
RECURSIVE join_tail(_)
join_tail(cs) ==
    IF cs = <<>> THEN <<>>
    ELSE IF Len(cs) = 1 THEN cs[1]
    ELSE cs[1] \o <<92>> \o join_tail(Tail(cs))

path_string(p) == IF p = <<>> THEN <<>> ELSE p[1] \o <<92>> \o join_tail(Tail(p))

\* Path::parent(): None (<<>>) for a drive root
parent(p) == SubSeq(p, 1, Len(p) - 1)

\* Path::file_name(): None for a drive root, modelled as the empty name
file_name(p) == IF Len(p) <= 1 THEN <<>> ELSE p[Len(p)]

\* path_lower of every entry of the universe
LowerPaths == [n \in Nodes |-> path_lower(Universe[n].path)]

\* The filesystem looks names up without regard to case: the node a path names
\* (0: none)
first_node(hits) == IF hits = {} THEN 0 ELSE CHOOSE n \in hits : \A m \in hits : n <= m

node_of(p) == LET lp == path_lower(p) IN first_node({n \in Nodes : LowerPaths[n] = lp})

kind_at(f, n) == IF n = 0 THEN "none" ELSE f[n]

kind_of(f, p) == kind_at(f, node_of(p))

\* Path::exists / Path::is_dir
exists(f, p) == kind_of(f, p) # "none"

is_dir(f, p) == kind_of(f, p) \in {"dir", "locked"}

\* the entries of the universe directly below each entry, in directory order
ChildNodes ==
    [n \in Nodes |->
       LET RECURSIVE from(_)
           from(i) ==
               IF i > Len(Universe) THEN <<>>
               ELSE IF /\ Len(Universe[i].path) = Len(Universe[n].path) + 1
                       /\ parent(Universe[i].path) = Universe[n].path
                    THEN <<i>> \o from(i + 1)
                    ELSE from(i + 1)
       IN  from(1)]

\* read_dir(n): the nodes of the entries directory n holds now
RECURSIVE present(_, _)
present(f, ns) ==
    IF ns = <<>> THEN <<>>
    ELSE IF f[Head(ns)] # "none" THEN <<Head(ns)>> \o present(f, Tail(ns))
    ELSE present(f, Tail(ns))

children(f, n) == IF n = 0 \/ f[n] # "dir" THEN <<>> ELSE present(f, ChildNodes[n])

-----------------------------------------------------------------------------
(* utils.rs: file_extension, is_shortcut, display_name.                    *)

\* the position of the last '.' of a name, 0 if there is none
last_dot(name) ==
    LET dots == {i \in DOMAIN name : name[i] = 46}
    IN  IF dots = {} THEN 0 ELSE CHOOSE i \in dots : \A j \in dots : j <= i

\* Path::extension() lower-cased: what follows the last '.', unless the name has
\* none or only begins with one
file_extension(p) ==
    LET name == file_name(p)
    IN  IF last_dot(name) <= 1 THEN <<>>
        ELSE to_lowercase(SubSeq(name, last_dot(name) + 1, Len(name)))

is_shortcut(p) == file_extension(p) = s_lnk

\* strip_suffix(".lnk"), else strip_suffix(".LNK"), else the name itself
display_name(p) ==
    LET name == file_name(p)
    IN  IF is_shortcut(p)
        THEN IF IsSuffix(s_dot_lnk, name) THEN SubSeq(name, 1, Len(name) - 4)
             ELSE IF IsSuffix(s_dot_LNK, name) THEN SubSeq(name, 1, Len(name) - 4)
             ELSE name
        ELSE name

-----------------------------------------------------------------------------
(* The three name lists of search.rs.                                      *)

TraversalDenylist ==
    { <<110, 111, 100, 101, 95, 109, 111, 100, 117, 108, 101, 115>>,  \* "node_modules"
      <<46, 103, 105, 116>>,  \* ".git"
      <<116, 97, 114, 103, 101, 116>>,  \* "target"
      <<95, 95, 112, 121, 99, 97, 99, 104, 101, 95, 95>>,  \* "__pycache__"
      <<46, 99, 97, 99, 104, 101>>,  \* ".cache"
      <<97, 112, 112, 100, 97, 116, 97>>,  \* "appdata"
      <<99, 97, 99, 104, 101>>,  \* "cache"
      <<116, 101, 109, 112>>,  \* "temp"
      <<116, 109, 112>>,  \* "tmp"
      <<36, 114, 101, 99, 121, 99, 108, 101, 46, 98, 105, 110>>,  \* "$recycle.bin"
      <<115, 121, 115, 116, 101, 109, 32, 118, 111, 108, 117, 109, 101, 32, 105, 110, 102, 111, 114, 109, 97, 116, 105, 111, 110>>,  \* "system volume information"
      <<119, 105, 110, 100, 111, 119, 115>>,  \* "windows"
      <<112, 114, 111, 103, 114, 97, 109, 100, 97, 116, 97>>,  \* "programdata"
      <<114, 101, 99, 111, 118, 101, 114, 121>>,  \* "recovery"
      <<98, 111, 111, 116>>,  \* "boot"
      <<112, 101, 114, 102, 108, 111, 103, 115>>,  \* "perflogs"
      <<109, 115, 111, 99, 97, 99, 104, 101>>,  \* "msocache"
      <<99, 111, 110, 102, 105, 103, 46, 109, 115, 105>>,  \* "config.msi"
      <<105, 110, 116, 101, 108>>,  \* "intel"
      <<97, 109, 100>>,  \* "amd"
      <<110, 118, 105, 100, 105, 97>>,  \* "nvidia"
      <<46, 118, 115>>,  \* ".vs"
      <<46, 105, 100, 101, 97>>,  \* ".idea"
      <<46, 118, 115, 99, 111, 100, 101>>,  \* ".vscode"
      <<98, 105, 110>>,  \* "bin"
      <<111, 98, 106>>,  \* "obj"
      <<100, 101, 98, 117, 103>>,  \* "debug"
      <<114, 101, 108, 101, 97, 115, 101>>,  \* "release"
      <<112, 97, 99, 107, 97, 103, 101, 115>>,  \* "packages"
      <<46, 110, 117, 103, 101, 116>>,  \* ".nuget"
      <<119, 112, 115, 121, 115, 116, 101, 109>>,  \* "wpsystem"
      <<119, 105, 110, 100, 111, 119, 115, 97, 112, 112, 115>>,  \* "windowsapps"
      <<120, 98, 111, 120, 103, 97, 109, 101, 115>> }  \* "xboxgames"

DiscoveryDenylist ==
    { <<36, 114, 101, 99, 121, 99, 108, 101, 46, 98, 105, 110>>,  \* "$recycle.bin"
      <<115, 121, 115, 116, 101, 109, 32, 118, 111, 108, 117, 109, 101, 32, 105, 110, 102, 111, 114, 109, 97, 116, 105, 111, 110>>,  \* "system volume information"
      <<114, 101, 99, 111, 118, 101, 114, 121>>,  \* "recovery"
      <<98, 111, 111, 116>>,  \* "boot"
      <<112, 101, 114, 102, 108, 111, 103, 115>>,  \* "perflogs"
      <<109, 115, 111, 99, 97, 99, 104, 101>>,  \* "msocache"
      <<99, 111, 110, 102, 105, 103, 46, 109, 115, 105>>,  \* "config.msi"
      <<105, 110, 116, 101, 108>>,  \* "intel"
      <<97, 109, 100>>,  \* "amd"
      <<110, 118, 105, 100, 105, 97>>,  \* "nvidia"
      <<119, 105, 110, 100, 111, 119, 115>>,  \* "windows"
      <<112, 114, 111, 103, 114, 97, 109, 32, 102, 105, 108, 101, 115>>,  \* "program files"
      <<112, 114, 111, 103, 114, 97, 109, 32, 102, 105, 108, 101, 115, 32, 40, 120, 56, 54, 41>>,  \* "program files (x86)"
      <<112, 114, 111, 103, 114, 97, 109, 100, 97, 116, 97>>,  \* "programdata"
      <<117, 115, 101, 114, 115>>,  \* "users"
      <<119, 105, 110, 100, 111, 119, 115, 46, 111, 108, 100>> }  \* "windows.old"

common_dirs == <<<<85, 115, 101, 114, 115>>,
    <<80, 114, 111, 106, 101, 99, 116, 115>>,
    <<87, 111, 114, 107>>,
    <<68, 101, 118, 101, 108, 111, 112, 109, 101, 110, 116>>,
    <<68, 101, 118>>,
    <<67, 111, 100, 101>>,
    <<68, 111, 99, 117, 109, 101, 110, 116, 115>>,
    <<68, 111, 119, 110, 108, 111, 97, 100, 115>>,
    <<68, 101, 115, 107, 116, 111, 112>>,
    <<71, 97, 109, 101, 115>>,
    <<83, 111, 102, 116, 119, 97, 114, 101>>,
    <<80, 114, 111, 103, 114, 97, 109, 115>>,
    <<65, 112, 112, 115>>,
    <<68, 97, 116, 97>>>>

NoiseTokens ==
    { <<117, 110, 105, 110, 115, 116, 97, 108, 108>>,  \* "uninstall"
      <<114, 101, 109, 111, 118, 101>>,  \* "remove"
      <<114, 101, 112, 97, 105, 114>>,  \* "repair"
      <<104, 101, 108, 112>>,  \* "help"
      <<114, 101, 97, 100, 109, 101>>,  \* "readme"
      <<109, 97, 110, 117, 97, 108>>,  \* "manual"
      <<100, 111, 99, 117, 109, 101, 110, 116, 97, 116, 105, 111, 110>>,  \* "documentation"
      <<108, 105, 99, 101, 110, 115, 101>>,  \* "license"
      <<119, 101, 98, 115, 105, 116, 101>>,  \* "website"
      <<117, 114, 108>> }  \* "url"

s_about == <<97, 98, 111, 117, 116>>   \* "about"

\* should_skip_app comparing the name as it is spelled: Thm_C8 does not hold of it
should_skip_app_cased(name) ==
    (\E t \in NoiseTokens : Contains(name, t)) \/ name = s_about

\* search.rs 784-798
should_skip_app(name) ==
    LET lower == to_lowercase(name)
    IN  (\E t \in NoiseTokens : Contains(lower, t)) \/ lower = s_about

-----------------------------------------------------------------------------
(* WalkDir.                                                                *)

\* the closure given to filter_entry (search.rs 615-663)
filter_entry(name) ==
    /\ ~(name # <<>> /\ name[1] \in {46, 36})
    /\ to_lowercase(name) \notin TraversalDenylist

\* DirEntry::file_name(): the last component, the whole path for a drive root
entry_file_name(p) == IF Len(p) <= 1 THEN path_string(p) ELSE p[Len(p)]

\* WalkDir::new(p).max_depth(max_depth)[.filter_entry(..)]: the entries yielded
\* (the path, made of the root as it was spelled and the names below it, and the
\* node it names), depth first and parents before their children; an entry the
\* filter rejects is not yielded and, if a directory, not descended into
RECURSIVE walk_node(_, _, _, _, _, _)
walk_entries(f, p, ch, depth, max_depth, filtered) ==
    Flatten([i \in DOMAIN ch |->
               walk_node(f, p \o <<file_name(Universe[ch[i]].path)>>, ch[i],
                         depth, max_depth, filtered)])

\* a walker that filters what it yields but descends everywhere (Iterator::filter
\* in place of filter_entry): Thm_C7 does not hold of it
walk_node_unpruned(f, p, n, depth, max_depth, filtered) ==
    (IF filtered /\ ~filter_entry(entry_file_name(p)) THEN <<>>
     ELSE <<[path |-> p, node |-> n]>>)
    \o (IF f[n] = "dir" /\ depth < max_depth
        THEN walk_entries(f, p, children(f, n), depth + 1, max_depth, filtered)
        ELSE <<>>)

walk_node(f, p, n, depth, max_depth, filtered) ==
    IF filtered /\ ~filter_entry(entry_file_name(p)) THEN <<>>
    ELSE <<[path |-> p, node |-> n]>> \o
         (IF f[n] = "dir" /\ depth < max_depth
          THEN walk_entries(f, p, children(f, n), depth + 1, max_depth, filtered)
          ELSE <<>>)

walk(f, p, max_depth, filtered) ==
    IF ~exists(f, p) THEN <<>> ELSE walk_node(f, p, node_of(p), 0, max_depth, filtered)

-----------------------------------------------------------------------------
(* The Application Index.                                                  *)

\* one SearchResult; root is not a field of the source: it records which root
\* task (0: none) produced the item
SearchResult(name, path, result_type, score, description, root) ==
    [name |-> name, path |-> path, result_type |-> result_type, score |-> score,
     description |-> description, root |-> root]

\* index_directory (search.rs 408-446) for result_type Application: the entries
\* it pushes, in walk order
index_max_depth == 5

index_directory(f, dir) ==
    IF ~exists(f, dir) THEN <<>>
    ELSE LET entries == walk(f, dir, index_max_depth, FALSE)
             keep(p) == is_shortcut(p) /\ ~should_skip_app(display_name(p))
             item(p) == SearchResult(display_name(p), p, "Application", 0,
                                     file_name(parent(p)), 0)
             RECURSIVE collect(_)
             collect(es) ==
                 IF es = <<>> THEN <<>>
                 ELSE IF keep(Head(es).path)
                      THEN <<item(Head(es).path)>> \o collect(Tail(es))
                 ELSE collect(Tail(es))
         IN  collect(entries)

\* self.applications with nothing removed: Thm_C15 does not hold of it
clear_none(apps) == apps

\* self.applications.clear() (search.rs 380)
clear(apps) == <<>>

\* index_applications (search.rs 379-405) on the index apps: clear, then the
\* user Start Menu, then the system-wide one if it exists
index_applications(apps, f) ==
    clear(apps)
        \o index_directory(f, user_start)
        \o (IF exists(f, system_start) THEN index_directory(f, system_start) ELSE <<>>)

-----------------------------------------------------------------------------
(* Volume and path discovery (search.rs 191-344).                          *)

\* is_drive_accessible: read_dir of the drive root succeeds
is_drive_accessible(f, drive_path) == kind_of(f, drive_path) = "dir"

\* the roots one drive contributes (the body of the loop over the drives)
\* search.rs 268-297: the top-level directories of a drive other than C: that
\* are not on the discovery denylist
top_level_dir(f, drive_path, n, dir_name) ==
    IF f[n] \in {"dir", "locked"} /\ to_lowercase(dir_name) \notin DiscoveryDenylist
    THEN <<drive_path \o <<dir_name>>>> ELSE <<>>

top_level(f, drive_path, entries) ==
    Flatten([i \in DOMAIN entries |->
               top_level_dir(f, drive_path, entries[i],
                             file_name(Universe[entries[i]].path))])

\* a common directory added without a look at the disk: Thm_C31 does not hold
\* of it
common_dir_any(f, common_path) == <<common_path>>

\* search.rs 305-329: the common directories of C: that exist
common_dir(f, common_path) ==
    IF exists(f, common_path) /\ is_dir(f, common_path) THEN <<common_path>> ELSE <<>>

common(f, drive_path) ==
    Flatten([i \in DOMAIN common_dirs |->
               common_dir(f, drive_path \o <<common_dirs[i]>>)])

accessible_drive_roots(f, drive_letter, drive_path) ==
    IF ~is_drive_accessible(f, drive_path) THEN <<>>
    ELSE IF drive_letter # 67
         THEN <<drive_path>> \o top_level(f, drive_path, children(f, node_of(drive_path)))
    ELSE common(f, drive_path)

\* the loop without the continue for A: and B:: Thm_C32 does not hold of it
drive_roots_all(f, drive_letter) ==
    accessible_drive_roots(f, drive_letter, <<drive(drive_letter)>>)

drive_roots(f, drive_letter) ==
    IF drive_letter = 65 \/ drive_letter = 66 THEN <<>>
    ELSE accessible_drive_roots(f, drive_letter, <<drive(drive_letter)>>)

\* init_extra_search_paths: home and pictures (this machine reports no video and
\* no music directory), the two Program Files directories if they exist, then
\* the drives
init_extra_search_paths(f) ==
    <<home_dir, picture_dir>>
        \o (IF exists(f, <<drive(67), s_Program_Files>>)
            THEN <<<<drive(67), s_Program_Files>>>> ELSE <<>>)
        \o (IF exists(f, <<drive(67), s_Program_Files_x86>>)
            THEN <<<<drive(67), s_Program_Files_x86>>>> ELSE <<>>)
        \o Flatten([i \in DOMAIN logical_drives |-> drive_roots(f, logical_drives[i])])

-----------------------------------------------------------------------------
(* Bounds of the model.                                                    *)

\* how many root tasks the thread pool runs at the same time
MaxThreads == 2

\* how many times the environment changes the filesystem
MaxFsChanges == 1

-----------------------------------------------------------------------------
(* One root task: the closure of par_iter().for_each (search.rs 590-749).  *)

max_per_path == 300

boost == 100

s_c_colon == <<99, 58>>   \* "c:"

is_drive_root(search_path) ==
    parent(search_path) = <<>> \/ str_len(path_string(search_path)) <= 3

is_non_c_drive(search_path) ==
    ~IsPrefix(s_c_colon, to_lowercase(path_string(search_path)))

\* one depth for every root: Thm_C26 does not hold of it
max_depth_flat(search_path) == 3

max_depth(search_path) ==
    IF is_drive_root(search_path) /\ is_non_c_drive(search_path) THEN 4
    ELSE IF is_drive_root(search_path) THEN 2
    ELSE 3

\* no boost for any root: Thm_C27 does not hold of it
drive_boost_none(search_path) == 0

drive_boost(search_path) == IF is_non_c_drive(search_path) THEN boost ELSE 0

\* the entries the filtered walker yields for a root
walker(f, search_path) == walk(f, search_path, max_depth(search_path), TRUE)

\* the item pushed for a candidate that matched (search.rs 675-687, 715-737)
scored_item(score, name, path, result_type, search_path, r) ==
    IF score = None THEN <<>>
    ELSE <<SearchResult(name, path, result_type, score[1] + drive_boost(search_path),
                        path_string(parent(path)), r)>>

\* search.rs 669-690: the root itself as a Folder candidate
root_candidate(f, search_path, normalized_query, query_lower, r) ==
    IF is_dir(f, search_path)
    THEN scored_item(calculate_score(display_name(search_path), normalized_query,
                                     query_lower),
                     display_name(search_path), search_path, "Folder", search_path, r)
    ELSE <<>>

\* search.rs 700-739: what one yielded entry adds to the local lists
\* the loop without the continue for the root's own entry: Thm_C28 does not hold
\* of it
named_candidate_rescored(f, search_path, entry, name, normalized_query, query_lower, r) ==
    IF is_drive_root(search_path) /\ str_len(name) < 2 THEN <<>>
    ELSE scored_item(calculate_score(name, normalized_query, query_lower), name,
                     entry.path,
                     IF f[entry.node] \in {"dir", "locked"} THEN "Folder" ELSE "File",
                     search_path, r)

named_candidate(f, search_path, entry, name, normalized_query, query_lower, r) ==
    IF entry.path = search_path THEN <<>>
    ELSE IF is_drive_root(search_path) /\ str_len(name) < 2 THEN <<>>
    ELSE scored_item(calculate_score(name, normalized_query, query_lower), name,
                     entry.path,
                     IF f[entry.node] \in {"dir", "locked"} THEN "Folder" ELSE "File",
                     search_path, r)

entry_candidate(f, search_path, entry, normalized_query, query_lower, r) ==
    named_candidate(f, search_path, entry, display_name(entry.path),
                    normalized_query, query_lower, r)

\* the items of one result type, in the order they were pushed
RECURSIVE of_type(_, _)
of_type(items, t) ==
    IF items = <<>> THEN <<>>
    ELSE IF Head(items).result_type = t THEN <<Head(items)>> \o of_type(Tail(items), t)
    ELSE of_type(Tail(items), t)

\* the loop over the entries examined
loop_candidates(f, search_path, examined, normalized_query, query_lower, r) ==
    Flatten([i \in DOMAIN examined |->
               entry_candidate(f, search_path, examined[i], normalized_query,
                               query_lower, r)])

\* The outcome of the closure up to the merge: the entries examined (those for
\* which the loop body runs: the loop breaks when path_checked exceeds
\* max_per_path), the final path_checked and the two local lists.
closure_outcome(entries, examined, root_item, found) ==
    [examined |-> [i \in DOMAIN examined |-> examined[i].path],
     path_checked |-> IF Len(entries) > max_per_path
                      THEN max_per_path + 1 ELSE Len(entries),
     path_results_folders |-> root_item \o of_type(found, "Folder"),
     path_results_files |-> of_type(found, "File")]

walked_root(f, search_path, normalized_query, query_lower, r, entries) ==
    closure_outcome(entries, Take(entries, max_per_path),
                    root_candidate(f, search_path, normalized_query, query_lower, r),
                    loop_candidates(f, search_path, Take(entries, max_per_path),
                                    normalized_query, query_lower, r))

\* a closure that scores the name of its root without looking whether the root
\* is there: Thm_C29 does not hold of it
root_task_unchecked(f, search_path, normalized_query, query_lower, r) ==
    IF ~exists(f, search_path)
    THEN [examined |-> <<>>, path_checked |-> 0,
          path_results_folders |->
              scored_item(calculate_score(display_name(search_path), normalized_query,
                                          query_lower),
                          display_name(search_path), search_path, "Folder",
                          search_path, r),
          path_results_files |-> <<>>]
    ELSE walked_root(f, search_path, normalized_query, query_lower, r,
                     walker(f, search_path))

root_task(f, search_path, normalized_query, query_lower, r) ==
    IF ~exists(f, search_path)
    THEN [examined |-> <<>>, path_checked |-> 0,
          path_results_folders |-> <<>>, path_results_files |-> <<>>]
    ELSE walked_root(f, search_path, normalized_query, query_lower, r,
                     walker(f, search_path))

\* search.rs 733-737: the list an item is pushed to is chosen by a second
\* path.is_dir(), a second read of the disk after the one that chose the
\* result_type (723); f2 is the filesystem at the second read
RECURSIVE pushed_as(_, _, _)
pushed_as(f2, found, dir) ==
    IF found = <<>> THEN <<>>
    ELSE (IF is_dir(f2, Head(found).path) = dir THEN <<Head(found)>> ELSE <<>>)
             \o pushed_as(f2, Tail(found), dir)

raced_outcome(t, root_item, found, f2) ==
    [t EXCEPT !.path_results_folders = root_item \o pushed_as(f2, found, TRUE),
              !.path_results_files = pushed_as(f2, found, FALSE)]

\* the closure on a filesystem that is f up to the first is_dir of an entry
\* and f2 from the second is_dir of that entry on
raced_task(f, f2, search_path, normalized_query, query_lower, r) ==
    raced_outcome(root_task(f, search_path, normalized_query, query_lower, r),
                  root_candidate(f, search_path, normalized_query, query_lower, r),
                  loop_candidates(f, search_path,
                                  Take(walker(f, search_path), max_per_path),
                                  normalized_query, query_lower, r),
                  f2)

-----------------------------------------------------------------------------
(* SearchEngine::search and search_files_and_folders, the sequential parts. *)

apps_cap == 5

folders_cap == 4

files_cap == 5

\* search.rs 451: query.is_empty()
\* search() without the early return: Thm_C1 does not hold of it
query_is_empty_never(q) == FALSE

query_is_empty(q) == q = <<>>

\* search.rs 475: query.len() >= 2, a length in bytes
query_is_meaningful(q) == str_len(q) >= 2

\* search.rs 460-466: the index entries that match, with their scores
with_score(app, score) ==
    IF score = None THEN <<>> ELSE <<[app EXCEPT !.score = score[1]]>>

RECURSIVE search_applications(_, _)
search_applications(apps, q) ==
    IF apps = <<>> THEN <<>>
    ELSE with_score(Head(apps), score_for_query(Head(apps).name, q))
             \o search_applications(Tail(apps), q)

RemoveAt(s, i) == SubSeq(s, 1, i - 1) \o SubSeq(s, i + 1, Len(s))

\* a bucket left in the order it was filled: Thm_C4 does not hold of it
sort_unstable_by_score_none(s) == {s}

\* sort_unstable_by(|a, b| b.score.cmp(&a.score)): descending by score; the order
\* of items with equal scores is not specified, so every such order is possible
RECURSIVE sort_unstable_by_score(_)
sort_unstable_by_score(s) ==
    IF s = <<>> THEN {<<>>}
    ELSE LET best == {i \in DOMAIN s : \A j \in DOMAIN s : s[j].score <= s[i].score}
         IN  UNION { { <<s[i]>> \o t : t \in sort_unstable_by_score(RemoveAt(s, i)) } :
                     i \in best }

\* a bucket left at its full length: Thm_C2 does not hold of it
truncate_none(s, n) == s

\* a truncation that keeps the end of the vector: Thm_C35 does not hold of it
truncate_last(s, n) == SubSeq(s, IF Len(s) < n THEN 1 ELSE Len(s) - n + 1, Len(s))

\* Vec::truncate
truncate(s, n) == Take(s, n)

\* retain on the path as it is spelled: Thm_C3 does not hold of it
RECURSIVE retain_unseen_exact(_, _)
retain_unseen_exact(items, seen) ==
    IF items = <<>> THEN [kept |-> <<>>, seen |-> seen]
    ELSE IF Head(items).path \in seen THEN retain_unseen_exact(Tail(items), seen)
    ELSE LET rest == retain_unseen_exact(Tail(items), seen \cup {Head(items).path})
         IN  [kept |-> <<Head(items)>> \o rest.kept, seen |-> rest.seen]

\* retain(|result| seen_paths.insert(path_lower)): keeps an item iff its
\* lower-cased path was not yet in the set; returns the kept items and the set
RECURSIVE retain_unseen(_, _)
retain_unseen(items, seen) ==
    IF items = <<>> THEN [kept |-> <<>>, seen |-> seen]
    ELSE LET path_lower_ == path_lower(Head(items).path)
         IN  IF path_lower_ \in seen THEN retain_unseen(Tail(items), seen)
             ELSE LET rest == retain_unseen(Tail(items), seen \cup {path_lower_})
                  IN  [kept |-> <<Head(items)>> \o rest.kept, seen |-> rest.seen]

\* a set of seen paths for each of the two collections: Thm_C5 does not hold of it
remove_duplicates_separate(fo, fi) ==
    [folders |-> retain_unseen(fo, {}).kept, files |-> retain_unseen(fi, {}).kept]

\* search.rs 755-766 and again 479-490: one set of seen paths, the folders
\* first, then the files
remove_duplicates(fo, fi) ==
    LET a == retain_unseen(fo, {})
        b == retain_unseen(fi, a.seen)
    IN  [folders |-> a.kept, files |-> b.kept]

\* search.rs 563-579: the configured paths, then the discovered ones, without
\* the paths already seen in lower case
RECURSIVE unique(_, _)
unique(paths, seen) ==
    IF paths = <<>> THEN <<>>
    ELSE IF path_lower(Head(paths)) \in seen THEN unique(Tail(paths), seen)
    ELSE <<Head(paths)>> \o unique(Tail(paths), seen \cup {path_lower(Head(paths))})

all_unique_paths(config_paths, extra) == unique(config_paths \o extra, {})

EmptyGrouped == [applications |-> <<>>, folders |-> <<>>, files |-> <<>>]

PendingTask ==
    [pc |-> "pending", examined |-> <<>>, path_checked |-> 0,
     path_results_folders |-> <<>>, path_results_files |-> <<>>]

\* the locals of a call of search() that has not begun
IdleCall ==
    [pc |-> "idle", query |-> <<>>, grouped |-> EmptyGrouped, unique_paths |-> <<>>,
     task |-> <<>>, folders |-> <<>>, files |-> <<>>, result |-> EmptyGrouped,
     returned |-> FALSE]

-----------------------------------------------------------------------------
(* The launcher window (window.rs): what search() answers when it is the   *)
(* only call, String's byte-indexed operations, and WindowState's methods. *)

\* SearchEngine::search (search.rs 450-503) run from its call to its return
\* with the disk still, the root tasks merging in the order of the roots
search_answers(f, config_paths, extra, apps, q) ==
    IF query_is_empty(q) THEN {EmptyGrouped}
    ELSE LET roots == IF query_is_meaningful(q)
                      THEN all_unique_paths(config_paths, extra) ELSE <<>>
             tasks == [i \in DOMAIN roots |->
                         root_task(f, roots[i], normalize_for_search(q),
                                   to_lowercase(q), i)]
             d1 == remove_duplicates(
                       Flatten([i \in DOMAIN roots |-> tasks[i].path_results_folders]),
                       Flatten([i \in DOMAIN roots |-> tasks[i].path_results_files]))
             d2 == remove_duplicates(d1.folders, d1.files)
         IN  { [applications |-> truncate(a, apps_cap),
                folders |-> truncate(fo, folders_cap),
                files |-> truncate(fi, files_cap)] :
               a \in sort_unstable_by_score(search_applications(apps, q)),
               fo \in sort_unstable_by_score(d2.folders),
               fi \in sort_unstable_by_score(d2.files) }

\* FlatResult::SectionHeader(result_type)
SectionHeader(result_type) ==
    [tag |-> "SectionHeader", result_type |-> result_type, item |-> None]

\* FlatResult::Item(result)
FlatItem(r) == [tag |-> "Item", result_type |-> r.result_type, item |-> Some(r)]

\* one bucket of flatten_with_sections: the header, then the items
section(result_type, bucket) ==
    IF bucket = <<>> THEN <<>>
    ELSE <<SectionHeader(result_type)>> \o [i \in DOMAIN bucket |-> FlatItem(bucket[i])]

\* GroupedResults::flatten_with_sections (search.rs 109-135)
flatten_with_sections(g) ==
    section("Application", g.applications) \o section("Folder", g.folders)
        \o section("File", g.files)

\* FlatResult::is_selectable (search.rs 146-148)
is_selectable(r) == r.tag = "Item"

\* GroupedResults::get_by_type (search.rs 101-107)
get_by_type(g, result_type) ==
    IF result_type = "Application" THEN g.applications
    ELSE IF result_type = "Folder" THEN g.folders
    ELSE g.files

\* the byte offsets of s that are character boundaries (str::is_char_boundary)
char_boundaries(s) == {str_len(Take(s, k)) : k \in 0..Len(s)}

\* the number of characters of s that end at or before the byte offset idx
chars_to(s, idx) == Cardinality({k \in 1..Len(s) : str_len(Take(s, k)) <= idx})

\* String::insert(idx, c): panics unless idx is a character boundary of s
insert_ok(s, idx) == idx \in char_boundaries(s)

String_insert(s, idx, c) ==
    Take(s, chars_to(s, idx)) \o <<c>> \o SubSeq(s, chars_to(s, idx) + 1, Len(s))

\* String::remove(idx): panics when idx is the end of s or no boundary of it
remove_ok(s, idx) == idx \in char_boundaries(s) /\ idx < str_len(s)

String_remove(s, idx) ==
    Take(s, chars_to(s, idx)) \o SubSeq(s, chars_to(s, idx) + 2, Len(s))

\* String::drain(start..end): panics unless both ends are boundaries of s
drain_ok(s, start, end) ==
    start <= end /\ start \in char_boundaries(s) /\ end \in char_boundaries(s)

String_drain(s, start, end) ==
    Take(s, chars_to(s, start)) \o SubSeq(s, chars_to(s, end) + 1, Len(s))

\* the length of s in UTF-16 code units
utf16_len(s) == SumSeq([i \in DOMAIN s |-> IF s[i] < 65536 THEN 1 ELSE 2])

\* CURSOR_TIMER_ID, SEARCH_TIMER_ID (window.rs 67, 70)
CURSOR_TIMER_ID == 1

SEARCH_TIMER_ID == 2

\* the WindowState built by create_and_run (window.rs 516-540); timers is the
\* set of timers the window has armed with SetTimer, run is "panicked" once a
\* handler has panicked
WindowState_new ==
    [query |-> <<>>, grouped_results |-> EmptyGrouped, flat_results |-> <<>>,
     selected_index |-> 0, visible |-> FALSE, cursor_position |-> 0,
     selection_start |-> None, selection_end |-> None, is_selecting |-> FALSE,
     search_pending |-> FALSE, timers |-> {}, run |-> "created"]

\* the first entry that is not selectable: the header of the first section
first_unselectable(flat) ==
    IF \E i \in DOMAIN flat : ~is_selectable(flat[i])
    THEN (CHOOSE i \in DOMAIN flat :
            ~is_selectable(flat[i]) /\ \A j \in 1..(i - 1) : is_selectable(flat[j])) - 1
    ELSE 0

\* the first selectable entry, 0 when there is none (window.rs 210-214);
\* indices are the source's, from 0
first_selectable(flat) ==
    IF \E i \in DOMAIN flat : is_selectable(flat[i])
    THEN (CHOOSE i \in DOMAIN flat :
            is_selectable(flat[i]) /\ \A j \in 1..(i - 1) : ~is_selectable(flat[j])) - 1
    ELSE 0

\* WindowState::perform_search (window.rs 200-215), the engine answering g
perform_search(w, g) ==
    [w EXCEPT !.grouped_results = g,
              !.flat_results = flatten_with_sections(g),
              !.selected_index = first_selectable(flatten_with_sections(g))]

\* WindowState::select_previous (window.rs 217-233)
select_previous(w) ==
    IF w.flat_results = <<>> THEN w
    ELSE LET below == {i \in 0..(w.selected_index - 1) :
                          i < Len(w.flat_results) /\ is_selectable(w.flat_results[i + 1])}
         IN  IF below = {} THEN w
             ELSE [w EXCEPT !.selected_index =
                      CHOOSE i \in below : \A j \in below : j <= i]

\* WindowState::select_next (window.rs 235-251)
select_next(w) ==
    IF w.flat_results = <<>> THEN w
    ELSE LET above == {i \in (w.selected_index + 1)..(Len(w.flat_results) - 1) :
                          is_selectable(w.flat_results[i + 1])}
         IN  IF above = {} THEN w
             ELSE [w EXCEPT !.selected_index =
                      CHOOSE i \in above : \A j \in above : i <= j]

\* WindowState::find_clicked_result_index (window.rs 269-313) for a click on
\* row item_index of the column of result_type
find_clicked_result_index(w, result_type, item_index) ==
    LET results == get_by_type(w.grouped_results, result_type)
        hits == {i \in DOMAIN w.flat_results :
                   /\ is_selectable(w.flat_results[i])
                   /\ w.flat_results[i].item[1].path = results[item_index + 1].path
                   /\ w.flat_results[i].item[1].result_type = result_type}
    IN  IF item_index < Len(results) /\ hits # {}
        THEN Some((CHOOSE i \in hits : \A j \in hits : i <= j) - 1)
        ELSE None

\* WindowState::clear (window.rs 323-338)
WindowState_clear(w) ==
    [w EXCEPT !.query = <<>>, !.grouped_results = EmptyGrouped,
              !.flat_results = <<>>, !.selected_index = 0, !.cursor_position = 0,
              !.selection_start = None, !.selection_end = None]

\* WindowState::get_selection_range (window.rs 357-367)
get_selection_range(w) ==
    IF w.selection_start # None /\ w.selection_end # None
    THEN IF w.selection_start[1] < w.selection_end[1]
         THEN <<w.selection_start[1], w.selection_end[1]>>
         ELSE <<w.selection_end[1], w.selection_start[1]>>
    ELSE <<0, 0>>

\* WindowState::has_selection (window.rs 369-371)
has_selection(w) == w.selection_start # None /\ w.selection_end # None

\* a handler that panics: the process is gone, with its window and its timers
panicked(w) == [w EXCEPT !.run = "panicked", !.visible = FALSE, !.timers = {}]

\* WindowState::delete_selection (window.rs 373-381)
delete_selection(w) ==
    IF ~has_selection(w) THEN w
    ELSE IF ~drain_ok(w.query, get_selection_range(w)[1], get_selection_range(w)[2])
         THEN panicked(w)
         ELSE [w EXCEPT !.query = String_drain(w.query, get_selection_range(w)[1],
                                               get_selection_range(w)[2]),
                        !.cursor_position = get_selection_range(w)[1],
                        !.selection_start = None, !.selection_end = None]

\* WindowState::select_all (window.rs 383-388)
select_all(w) ==
    IF w.query = <<>> THEN w
    ELSE [w EXCEPT !.selection_start = Some(0),
                   !.selection_end = Some(str_len(w.query))]

\* query.insert(cursor_position, c); cursor_position += 1 (window.rs 805-806,
\* 842-843)
insert_char(w, c) ==
    IF w.run = "panicked" THEN w
    ELSE IF ~insert_ok(w.query, w.cursor_position) THEN panicked(w)
    ELSE [w EXCEPT !.query = String_insert(w.query, w.cursor_position, c),
                   !.cursor_position = w.cursor_position + 1]

\* the loop of Ctrl+V over the characters of the clipboard text (803-808)
RECURSIVE insert_text(_, _)
insert_text(w, text) ==
    IF text = <<>> THEN w
    ELSE IF Head(text) \in {13, 10} THEN insert_text(w, Tail(text))
    ELSE insert_text(insert_char(w, Head(text)), Tail(text))

\* schedule_search that leaves the results of the old text on an empty query
schedule_search_keeps(w) ==
    IF w.run = "panicked" THEN w
    ELSE LET killed == IF w.search_pending THEN w.timers \ {SEARCH_TIMER_ID}
                       ELSE w.timers
         IN  IF w.query = <<>> THEN [w EXCEPT !.timers = killed]
             ELSE [w EXCEPT !.search_pending = TRUE,
                            !.timers = killed \cup {SEARCH_TIMER_ID}]

\* schedule_search (window.rs 1121-1136)
schedule_search(w) ==
    IF w.run = "panicked" THEN w
    ELSE LET killed == IF w.search_pending THEN w.timers \ {SEARCH_TIMER_ID}
                       ELSE w.timers
         IN  IF w.query = <<>>
             THEN [w EXCEPT !.timers = killed, !.grouped_results = EmptyGrouped,
                            !.flat_results = <<>>, !.selected_index = 0]
             ELSE [w EXCEPT !.search_pending = TRUE,
                            !.timers = killed \cup {SEARCH_TIMER_ID}]

\* show_window (window.rs 1074-1097)
show_window(w) == [w EXCEPT !.visible = TRUE, !.timers = w.timers \cup {CURSOR_TIMER_ID}]

\* hide_window (window.rs 1099-1119)
hide_window(w) ==
    [WindowState_clear(w) EXCEPT !.visible = FALSE, !.search_pending = FALSE,
                     !.timers = w.timers \ {CURSOR_TIMER_ID, SEARCH_TIMER_ID}]

-----------------------------------------------------------------------------
(* The queries the caller issues.                                          *)

q_n == <<110>>            \* "n"

q_w == <<119>>            \* "w"

q_o_slash == <<248>>      \* o-slash: one character, two bytes

q_no == <<110, 111>>      \* "no"

q_note == <<110, 111, 116, 101>>   \* "note"
q_nov == <<110, 111, 118>>   \* "nov"

Queries == { <<>>, q_n, q_w, q_o_slash, q_no, q_note, q_nov }

-----------------------------------------------------------------------------
(* The global hotkey (hotkey.rs).                                          *)

\* windows::Win32::UI::Input::KeyboardAndMouse
MOD_ALT == 1

MOD_CONTROL == 2

MOD_SHIFT == 4

MOD_WIN == 8

MOD_NOREPEAT == 16384

VK_SPACE == 32

Modifiers == {"Win", "Alt", "Ctrl", "Shift", "WinAlt", "CtrlAlt", "CtrlShift"}

\* Modifier::to_windows_flags (hotkey.rs 178-188); the flags are distinct bits,
\* so | is +
to_windows_flags(m) ==
    CASE m = "Win" -> MOD_WIN
      [] m = "Alt" -> MOD_ALT
      [] m = "Ctrl" -> MOD_CONTROL
      [] m = "Shift" -> MOD_SHIFT
      [] m = "WinAlt" -> MOD_WIN + MOD_ALT
      [] m = "CtrlAlt" -> MOD_CONTROL + MOD_ALT
      [] m = "CtrlShift" -> MOD_CONTROL + MOD_SHIFT

\* the keys of the runs: Space, Letter('j'), Letter('J'), Letter('A'),
\* Function(0), Function(1), Function(12)
Keys ==
    { [kind |-> "Space", arg |-> 0], [kind |-> "Letter", arg |-> 106],
      [kind |-> "Letter", arg |-> 74], [kind |-> "Letter", arg |-> 65],
      [kind |-> "Function", arg |-> 0],
      [kind |-> "Function", arg |-> 1], [kind |-> "Function", arg |-> 12] }

\* Key::to_virtual_key (hotkey.rs 215-228): to_ascii_uppercase for a letter,
\* 0x70 + n.saturating_sub(1) for a function key
to_virtual_key(k) ==
    CASE k.kind = "Space" -> VK_SPACE
      [] k.kind = "Letter" -> IF k.arg \in 97..122 THEN k.arg - 32 ELSE k.arg
      [] k.kind = "Function" -> 112 + (IF k.arg >= 1 THEN k.arg - 1 ELSE 0)

\* HotkeyManager::new (hotkey.rs 47-53), the static HOTKEY_REGISTERED (22) at
\* its initial value and an OS that holds no hotkey for the window; ret is
\* what the last call returned, alive is FALSE once the manager was dropped
HotkeyManager_new ==
    [alive |-> TRUE, registered |-> FALSE, HOTKEY_REGISTERED |-> FALSE,
     os |-> <<>>, ret |-> "none"]

\* a root task before its loop: the two local lists are empty (their lengths
\* together are pushed), path_checked is 0 (665-667); errors counts the Err
\* items the walker has produced
loop_start == [pc |-> "start", path_checked |-> 0, pushed |-> 0, errors |-> 0]

-----------------------------------------------------------------------------
(* The state machine of the engine.                                        *)

fs0 == [n \in Nodes |-> Universe[n].kind]

\* a configured search path: the documents directory, spelled in lower case
config_search_paths == << path_lower(document_dir) >>

\* SearchEngine::new(config) (search.rs 171-188) on a machine whose filesystem
\* is f, config.search_paths being paths
EngineWith(f, paths) ==
    /\ fs = f
    /\ fsChanges = 0
    /\ search_paths = paths
    /\ extra_search_paths = init_extra_search_paths(f)
    /\ applications = index_applications(<<>>, f)
    /\ pc = "idle"
    /\ query = <<>>
    /\ grouped = EmptyGrouped
    /\ unique_paths = <<>>
    /\ task = <<>>
    /\ folders = <<>>
    /\ files = <<>>
    /\ result = EmptyGrouped
    /\ returned = FALSE
    /\ peer = IdleCall
    /\ hk = HotkeyManager_new
    /\ loop = loop_start
    /\ win = WindowState_new

EngineOn(f) == EngineWith(f, config_search_paths)

EngineInit == EngineOn(fs0)

Init ==
    /\ EngineInit
    /\ sc_name = <<>>
    /\ sc_query = <<>>
    /\ sc_out = None
    /\ sc_done = FALSE

\* search(query) with an empty query: returns at once (search.rs 451-453)
SearchEmpty(q) ==
    /\ pc = "idle"
    /\ query_is_empty(q)
    /\ query' = q
    /\ grouped' = EmptyGrouped
    /\ unique_paths' = <<>>
    /\ task' = <<>>
    /\ folders' = <<>>
    /\ files' = <<>>
    /\ result' = EmptyGrouped
    /\ returned' = TRUE
    /\ UNCHANGED <<fs, fsChanges, search_paths, extra_search_paths, applications, pc>>
    /\ UNCHANGED sideVars

\* search(query) with a query that is not "meaningful": the applications only;
\* the deduplication, the sorts and the truncations then run on empty buckets
AnswerShort(q) ==
    /\ ~query_is_empty(q)
    /\ ~query_is_meaningful(q)
    /\ \E apps \in sort_unstable_by_score(search_applications(applications, q)) :
         \E dd \in {remove_duplicates(<<>>, <<>>)} :
           \E fo \in sort_unstable_by_score(dd.folders) :
             \E fi \in sort_unstable_by_score(dd.files) :
               /\ grouped' = [applications |-> truncate(apps, apps_cap),
                              folders |-> truncate(fo, folders_cap),
                              files |-> truncate(fi, files_cap)]
               /\ result' = grouped'
    /\ query' = q
    /\ unique_paths' = <<>>
    /\ task' = <<>>
    /\ folders' = <<>>
    /\ files' = <<>>
    /\ returned' = TRUE
    /\ UNCHANGED <<fs, fsChanges, search_paths, extra_search_paths, applications, pc>>
    /\ UNCHANGED sideVars

\* the caller is in no other call on the engine
SearchShort(q) == pc = "idle" /\ AnswerShort(q)

\* search(query) up to the par_iter: the applications bucket is sorted and
\* truncated, the roots are collected, one task per root is queued
SearchBegin(q) ==
    /\ pc = "idle"
    /\ ~query_is_empty(q)
    /\ query_is_meaningful(q)
    /\ \E apps \in sort_unstable_by_score(search_applications(applications, q)) :
         grouped' = [applications |-> truncate(apps, apps_cap),
                     folders |-> <<>>, files |-> <<>>]
    /\ query' = q
    /\ unique_paths' = all_unique_paths(search_paths, extra_search_paths)
    /\ task' = [i \in DOMAIN all_unique_paths(search_paths, extra_search_paths) |->
                  PendingTask]
    /\ folders' = <<>>
    /\ files' = <<>>
    /\ result' = EmptyGrouped
    /\ returned' = FALSE
    /\ pc' = "searching"
    /\ UNCHANGED <<fs, fsChanges, search_paths, extra_search_paths, applications>>
    /\ UNCHANGED sideVars

Running == {i \in DOMAIN task : task[i].pc \notin {"pending", "done"}}

\* the root tasks of the second caller's search that occupy a pool thread: the
\* two calls use the one global pool
PeerRunning == {i \in DOMAIN peer.task : peer.task[i].pc \notin {"pending", "done"}}

\* a pool thread takes root i and runs the closure up to the merge (590-740)
TaskWalk(i) ==
    /\ pc = "searching"
    /\ task[i].pc = "pending"
    /\ Cardinality(Running) + Cardinality(PeerRunning) < MaxThreads
    /\ \E t \in {root_task(fs, unique_paths[i], normalize_for_search(query),
                           to_lowercase(query), i)} :
           task' = [task EXCEPT ![i] =
                      [pc |-> IF t.path_results_folders # <<>> THEN "merge_folders"
                              ELSE IF t.path_results_files # <<>> THEN "merge_files"
                              ELSE "done",
                       examined |-> t.examined,
                       path_checked |-> t.path_checked,
                       path_results_folders |-> t.path_results_folders,
                       path_results_files |-> t.path_results_files]]
    /\ UNCHANGED <<fs, fsChanges, search_paths, extra_search_paths, applications, pc,
                   query, grouped, unique_paths, folders, files, result, returned>>
    /\ UNCHANGED sideVars

\* a pool thread runs the closure of root i while the environment changes the
\* entry n between the two path.is_dir() calls made for it (723, 733)
TaskWalkRaced(i, n) ==
    /\ pc = "searching"
    /\ task[i].pc = "pending"
    /\ Cardinality(Running) + Cardinality(PeerRunning) < MaxThreads
    /\ fsChanges < MaxFsChanges
    /\ fs' = [fs EXCEPT ![n] = other_kind(n, fs[n])]
    /\ fsChanges' = fsChanges + 1
    /\ \E t \in {raced_task(fs, [fs EXCEPT ![n] = other_kind(n, fs[n])],
                            unique_paths[i], normalize_for_search(query),
                            to_lowercase(query), i)} :
           task' = [task EXCEPT ![i] =
                      [pc |-> IF t.path_results_folders # <<>> THEN "merge_folders"
                              ELSE IF t.path_results_files # <<>> THEN "merge_files"
                              ELSE "done",
                       examined |-> t.examined,
                       path_checked |-> t.path_checked,
                       path_results_folders |-> t.path_results_folders,
                       path_results_files |-> t.path_results_files]]
    /\ UNCHANGED <<search_paths, extra_search_paths, applications, pc,
                   query, grouped, unique_paths, folders, files, result, returned>>
    /\ UNCHANGED sideVars

\* folders.lock().unwrap().extend(path_results_folders) (743-745)
TaskMergeFolders(i) ==
    /\ pc = "searching"
    /\ task[i].pc = "merge_folders"
    /\ folders' = folders \o task[i].path_results_folders
    /\ task' = [task EXCEPT ![i].pc =
                  IF task[i].path_results_files # <<>> THEN "merge_files" ELSE "done"]
    /\ UNCHANGED <<fs, fsChanges, search_paths, extra_search_paths, applications, pc,
                   query, grouped, unique_paths, files, result, returned>>
    /\ UNCHANGED sideVars

\* files.lock().unwrap().extend(path_results_files) (746-748)
TaskMergeFiles(i) ==
    /\ pc = "searching"
    /\ task[i].pc = "merge_files"
    /\ files' = files \o task[i].path_results_files
    /\ task' = [task EXCEPT ![i].pc = "done"]
    /\ UNCHANGED <<fs, fsChanges, search_paths, extra_search_paths, applications, pc,
                   query, grouped, unique_paths, folders, result, returned>>
    /\ UNCHANGED sideVars

\* the for_each has returned: into_inner and the deduplication of 751-769;
\* search_files_and_folders returns to search()
SearchCollect ==
    /\ pc = "searching"
    /\ \A i \in DOMAIN task : task[i].pc = "done"
    /\ LET d == remove_duplicates(folders, files)
       IN  grouped' = [applications |-> grouped.applications,
                       folders |-> d.folders, files |-> d.files]
    /\ pc' = "collected"
    /\ UNCHANGED <<fs, fsChanges, search_paths, extra_search_paths, applications,
                   query, unique_paths, task, folders, files, result, returned>>
    /\ UNCHANGED sideVars

\* the rest of search() (479-501): the second deduplication, the sorts and the
\* truncations; the two shared vectors were consumed by into_inner
SearchReturn ==
    /\ pc = "collected"
    /\ LET d == remove_duplicates(grouped.folders, grouped.files)
       IN  \E fo \in sort_unstable_by_score(d.folders) :
             \E fi \in sort_unstable_by_score(d.files) :
               /\ grouped' = [applications |-> grouped.applications,
                              folders |-> truncate(fo, folders_cap),
                              files |-> truncate(fi, files_cap)]
               /\ result' = grouped'
    /\ folders' = <<>>
    /\ files' = <<>>
    /\ returned' = TRUE
    /\ pc' = "idle"
    /\ UNCHANGED <<fs, fsChanges, search_paths, extra_search_paths, applications,
                   query, unique_paths, task>>
    /\ UNCHANGED sideVars

\* a refresh that runs the discovery of new() again, pushing onto the roots it
\* has: Thm_C17 does not hold of it
Refresh_rediscover ==
    /\ pc = "idle"
    /\ applications' = index_applications(applications, fs)
    /\ extra_search_paths' = extra_search_paths \o init_extra_search_paths(fs)
    /\ UNCHANGED <<fs, fsChanges, search_paths, pc, query, grouped,
                   unique_paths, task, folders, files, result, returned>>
    /\ UNCHANGED sideVars

\* refresh() (search.rs 773-775): the index is cleared and rebuilt
Refresh ==
    /\ pc = "idle"
    /\ applications' = index_applications(applications, fs)
    /\ UNCHANGED <<fs, fsChanges, search_paths, extra_search_paths, pc, query, grouped,
                   unique_paths, task, folders, files, result, returned>>
    /\ UNCHANGED sideVars

\* the environment changes one entry of the filesystem
FsChange(n) ==
    /\ fsChanges < MaxFsChanges
    /\ fs' = [fs EXCEPT ![n] = other_kind(n, fs[n])]
    /\ fsChanges' = fsChanges + 1
    /\ UNCHANGED <<search_paths, extra_search_paths, applications, pc, query, grouped,
                   unique_paths, task, folders, files, result, returned>>
    /\ UNCHANGED sideVars

Next ==
    \/ \E q \in Queries : SearchEmpty(q)
    \/ \E q \in Queries : SearchShort(q)
    \/ \E q \in Queries : SearchBegin(q)
    \/ \E i \in DOMAIN task : TaskWalk(i)
    \/ \E i \in DOMAIN task, n \in Mutable : TaskWalkRaced(i, n)
    \/ \E i \in DOMAIN task : TaskMergeFolders(i)
    \/ \E i \in DOMAIN task : TaskMergeFiles(i)
    \/ SearchCollect
    \/ SearchReturn
    \/ Refresh
    \/ \E n \in Mutable : FsChange(n)

Spec == Init /\ [][Next]_vars

-----------------------------------------------------------------------------
(* The merge of 742-748 in the steps the two mutexes make visible: a root   *)
(* task waits for the lock of a shared vector, holds it while it extends    *)
(* the vector, and releases it when the guard is dropped at the end of the  *)
(* statement.  A task holds the lock of the folders while it is at          *)
(* "extend_folders" and the lock of the files while it is at                *)
(* "extend_files".                                                          *)

\* a mutex that excludes nobody: Thm_C24 does not hold of it
lock_available_always(t, holding) == TRUE

\* a mutex nobody can lock: Thm_C13 does not hold of it
lock_available_never(t, holding) == FALSE

\* Mutex::lock returns once no other thread holds the guard
lock_available(t, holding) == \A j \in DOMAIN t : t[j].pc # holding

\* folders.lock() (744)
LockFolders(i) ==
    /\ pc = "searching"
    /\ task[i].pc = "merge_folders"
    /\ lock_available(task, "extend_folders")
    /\ task' = [task EXCEPT ![i].pc = "extend_folders"]
    /\ UNCHANGED <<fs, fsChanges, search_paths, extra_search_paths, applications, pc,
                   query, grouped, unique_paths, folders, files, result, returned>>
    /\ UNCHANGED sideVars

\* .unwrap().extend(path_results_folders), and the guard is dropped (744)
ExtendFolders(i) ==
    /\ pc = "searching"
    /\ task[i].pc = "extend_folders"
    /\ folders' = folders \o task[i].path_results_folders
    /\ task' = [task EXCEPT ![i].pc =
                  IF task[i].path_results_files # <<>> THEN "merge_files" ELSE "done"]
    /\ UNCHANGED <<fs, fsChanges, search_paths, extra_search_paths, applications, pc,
                   query, grouped, unique_paths, files, result, returned>>
    /\ UNCHANGED sideVars

\* files.lock() (747)
LockFiles(i) ==
    /\ pc = "searching"
    /\ task[i].pc = "merge_files"
    /\ lock_available(task, "extend_files")
    /\ task' = [task EXCEPT ![i].pc = "extend_files"]
    /\ UNCHANGED <<fs, fsChanges, search_paths, extra_search_paths, applications, pc,
                   query, grouped, unique_paths, folders, files, result, returned>>
    /\ UNCHANGED sideVars

\* a merge that stores the task's list over what the vector holds (what an
\* unsynchronized write could leave): Thm_C23 does not hold of it
ExtendFiles_overwrite(i) ==
    /\ pc = "searching"
    /\ task[i].pc = "extend_files"
    /\ files' = task[i].path_results_files
    /\ task' = [task EXCEPT ![i].pc = "done"]
    /\ UNCHANGED <<fs, fsChanges, search_paths, extra_search_paths, applications, pc,
                   query, grouped, unique_paths, folders, result, returned>>
    /\ UNCHANGED sideVars

\* .unwrap().extend(path_results_files), and the guard is dropped (747)
ExtendFiles(i) ==
    /\ pc = "searching"
    /\ task[i].pc = "extend_files"
    /\ files' = files \o task[i].path_results_files
    /\ task' = [task EXCEPT ![i].pc = "done"]
    /\ UNCHANGED <<fs, fsChanges, search_paths, extra_search_paths, applications, pc,
                   query, grouped, unique_paths, folders, result, returned>>
    /\ UNCHANGED sideVars

\* the queries of the runs in which the locks are followed step by step

LiveQueries == { <<>>, q_n, q_w, q_o_slash, q_no, q_nov }

\* the filesystems those runs start on: the one of fs0, the same with one
\* changeable entry changed, and the same without the volume D:
FsStates ==
    {fs0}
    \cup { [fs0 EXCEPT ![n] = other_kind(n, fs0[n])] : n \in Mutable }
    \cup { [n \in Nodes |-> IF Universe[n].path[1] = drive(68) THEN "none" ELSE fs0[n]] }

LiveInit ==
    /\ \E f \in FsStates : EngineOn(f)
    /\ sc_name = <<>>
    /\ sc_query = <<>>
    /\ sc_out = None
    /\ sc_done = FALSE

\* one engine answering one query after the other on a filesystem that stays
\* as it is
NextLock ==
    \/ \E q \in LiveQueries : SearchEmpty(q)
    \/ \E q \in LiveQueries : SearchShort(q)
    \/ \E q \in LiveQueries : SearchBegin(q)
    \/ \E i \in DOMAIN task : TaskWalk(i)
    \/ \E i \in DOMAIN task : LockFolders(i)
    \/ \E i \in DOMAIN task : ExtendFolders(i)
    \/ \E i \in DOMAIN task : LockFiles(i)
    \/ \E i \in DOMAIN task : ExtendFiles(i)
    \/ SearchCollect
    \/ SearchReturn

\* what TaskWalk, SearchCollect and SearchReturn require of the state they start
\* in: each of them is enabled exactly when its guard holds, because the rest
\* of the action only says what the next state is
TaskWalkEnabled ==
    /\ pc = "searching"
    /\ Cardinality(Running) + Cardinality(PeerRunning) < MaxThreads
    /\ \E i \in DOMAIN task : task[i].pc = "pending"

SearchCollectEnabled == pc = "searching" /\ \A i \in DOMAIN task : task[i].pc = "done"

SearchReturnEnabled == pc = "collected"

\* The pool runs every queued root task and every task that is ready to take a
\* step takes it; for_each returns once all tasks are done and the calling
\* thread goes on.  The caller and the environment are under no obligation.
\* For the three actions whose next state is costly to compute, weak fairness
\* is written out, []<>~ENABLED <<A>>_vars \/ []<><<A>>_vars, with the guard
\* in the place of ENABLED.
Fairness ==
    /\ ([]<>~TaskWalkEnabled \/ []<><<\E i \in DOMAIN task : TaskWalk(i)>>_vars)
    /\ WF_vars(\E i \in DOMAIN task : LockFolders(i))
    /\ WF_vars(\E i \in DOMAIN task : ExtendFolders(i))
    /\ WF_vars(\E i \in DOMAIN task : LockFiles(i))
    /\ WF_vars(\E i \in DOMAIN task : ExtendFiles(i))
    /\ ([]<>~SearchCollectEnabled \/ []<><<SearchCollect>>_vars)
    /\ ([]<>~SearchReturnEnabled \/ []<><<SearchReturn>>_vars)

LiveSpec == LiveInit /\ [][NextLock]_vars /\ Fairness


-----------------------------------------------------------------------------
(* refresh() in the steps of index_applications (379-405), on a machine     *)
(* whose Start Menu directories come and go.  pc is "cleared" after         *)
(* self.applications.clear(), "user_indexed" after the first               *)
(* index_directory and "failed" once refresh has returned an Err.  In these runs fsChanges is 1 once the filesystem has   *)
(* changed since the last scan began (or since construction), else 0.       *)

\* the filesystems of these runs: each Start Menu directory is there, missing
\* or unreadable, one shortcut is installed or not
IndexFsStates ==
    { [n \in Nodes |->
         IF Universe[n].path = user_start THEN ku
         ELSE IF Universe[n].path = system_start THEN ks
         ELSE IF Universe[n].path = user_start \o <<s_Notion_lnk>>
              THEN (IF ku = "none" THEN "none" ELSE kn)
         ELSE IF Universe[n].path = user_start \o <<s_Edge_Lnk>>
              THEN (IF ku = "none" THEN "none" ELSE ke)
         ELSE IF ku = "none" /\ IsPrefix(user_start, Universe[n].path) THEN "none"
         ELSE IF ks = "none" /\ IsPrefix(system_start, Universe[n].path) THEN "none"
         ELSE fs0[n]] :
      ku \in {"dir", "none", "locked"}, ks \in {"dir", "none", "locked"},
      kn \in {"none", "file"}, ke \in {"none", "file"} }

IndexInit ==
    /\ \E f \in IndexFsStates : EngineOn(f)
    /\ sc_name = <<>>
    /\ sc_query = <<>>
    /\ sc_out = None
    /\ sc_done = FALSE

\* the environment changes the Start Menu
StartMenuChange(f) ==
    /\ f # fs
    /\ fs' = f
    /\ fsChanges' = 1
    /\ UNCHANGED <<search_paths, extra_search_paths, applications, pc, query, grouped,
                   unique_paths, task, folders, files, result, returned>>
    /\ UNCHANGED sideVars

\* refresh() is entered; self.applications.clear() (380)
RefreshClear ==
    /\ pc \in {"idle", "failed"}
    /\ applications' = clear(applications)
    /\ fsChanges' = 0
    /\ pc' = "cleared"
    /\ UNCHANGED <<fs, search_paths, extra_search_paths, query, grouped,
                   unique_paths, task, folders, files, result, returned>>
    /\ UNCHANGED sideVars

\* an index_directory that returns Err for a directory that is missing:
\* Thm_C16 does not hold of it
index_directory_strict(f, dir) == exists(f, dir)

\* index_directory returns Ok(()): it returns Ok(()) at once for a path that does
\* not exist (409-411), the walk drops the entries it cannot read
\* (filter_map(|e| e.ok()), 413-416) and the function ends in Ok(()) (445)
index_directory_ok(f, dir) == TRUE

\* self.index_directory(&path, ResultType::Application)? for the user Start
\* Menu (383-395); on Err the ? makes refresh return it ("failed")
RefreshUser ==
    /\ pc = "cleared"
    /\ IF index_directory_ok(fs, user_start)
       THEN /\ applications' = applications \o index_directory(fs, user_start)
            /\ pc' = "user_indexed"
       ELSE /\ pc' = "failed"
            /\ UNCHANGED applications
    /\ UNCHANGED <<fs, fsChanges, search_paths, extra_search_paths, query, grouped,
                   unique_paths, task, folders, files, result, returned>>
    /\ UNCHANGED sideVars

\* the system-wide Start Menu, if it exists (398-401); refresh() returns Ok(())
RefreshSystem ==
    /\ pc = "user_indexed"
    /\ IF exists(fs, system_start) /\ ~index_directory_ok(fs, system_start)
       THEN /\ pc' = "failed"
            /\ UNCHANGED applications
       ELSE /\ applications' =
                  applications \o (IF exists(fs, system_start)
                                   THEN index_directory(fs, system_start) ELSE <<>>)
            /\ pc' = "idle"
    /\ UNCHANGED <<fs, fsChanges, search_paths, extra_search_paths, query, grouped,
                   unique_paths, task, folders, files, result, returned>>
    /\ UNCHANGED sideVars

\* an engine that can be searched while it is being refreshed: Thm_C20 does not
\* hold of it
borrowed_mut_never(p) == FALSE

\* refresh(&mut self) is running: the engine is borrowed exclusively, and
\* search(&self) cannot be called on it (773, 450)
borrowed_mut(p) == p \in {"cleared", "user_indexed"}

\* search(query) by any holder of a shared reference to the engine
SharedSearch(q) == ~borrowed_mut(pc) /\ AnswerShort(q)

IndexQueries == { q_n, q_w }

NextIndex ==
    \/ \E f \in IndexFsStates : StartMenuChange(f)
    \/ RefreshClear
    \/ RefreshUser
    \/ RefreshSystem
    \/ \E q \in IndexQueries : SharedSearch(q)

IndexSpec == IndexInit /\ [][NextIndex]_vars

-----------------------------------------------------------------------------
(* Two callers search the same engine at the same time (search takes &self).*)
(* The steps of the caller whose locals are in pc .. returned interleave    *)
(* with those of the second caller, whose locals are in peer: Switch makes  *)
(* the other caller the one that takes the next steps.  The index and the   *)
(* filesystem do not change in these runs.                                  *)

\* folders and files declared as shared by all calls (a field of the engine, a
\* static): Thm_C19 does not hold of it
call_shared(own, shared) == shared

\* let folders = Mutex::new(Vec::new()); let files = Mutex::new(Vec::new());
\* (582-583): locals of search_files_and_folders, so each call has its own and
\* a caller that resumes finds the vectors of its own call
call_local(own, shared) == own

Switch ==
    /\ pc' = peer.pc
    /\ query' = peer.query
    /\ grouped' = peer.grouped
    /\ unique_paths' = peer.unique_paths
    /\ task' = peer.task
    /\ folders' = call_local(peer.folders, folders)
    /\ files' = call_local(peer.files, files)
    /\ result' = peer.result
    /\ returned' = peer.returned
    /\ peer' = [pc |-> pc, query |-> query, grouped |-> grouped,
                unique_paths |-> unique_paths, task |-> task, folders |-> folders,
                files |-> files, result |-> result, returned |-> returned]
    /\ peer' # peer \/ pc' # pc
    /\ UNCHANGED <<fs, fsChanges, search_paths, extra_search_paths, applications>>
    /\ UNCHANGED <<scoreVars, hk, loop, win>>

PairQueries == { q_no, q_nov }

\* the filesystem of these runs: the one without the volume D:
PairFs == CHOOSE f \in FsStates : ~exists(f, <<drive(68)>>)

PairInit ==
    /\ EngineOn(PairFs)
    /\ sc_name = <<>>
    /\ sc_query = <<>>
    /\ sc_out = None
    /\ sc_done = FALSE

NextPair ==
    \/ \E q \in PairQueries : SearchBegin(q)
    \/ \E i \in DOMAIN task : TaskWalk(i)
    \/ \E i \in DOMAIN task : TaskMergeFolders(i)
    \/ \E i \in DOMAIN task : TaskMergeFiles(i)
    \/ SearchCollect
    \/ SearchReturn
    \/ Switch

PairSpec == PairInit /\ [][NextPair]_vars

-----------------------------------------------------------------------------
(* Searches over other roots: the engine is configured with the documents   *)
(* directory or with the root of the volume C:, on a filesystem in which a  *)
(* directory of D: can or cannot be read; the filesystem stays as it is.    *)

q_us == <<117, 115>>   \* "us"

RootQueries == { q_no, q_us }

RootFsStates ==
    { fs0, [fs0 EXCEPT ![node_of(data_notes)] = "locked"] }

RootConfigs ==
    { config_search_paths, << <<drive(67)>> >>, << work_dir \o <<s_node_modules>> >> }

RootInit ==
    /\ \E f \in RootFsStates, paths \in RootConfigs : EngineWith(f, paths)
    /\ sc_name = <<>>
    /\ sc_query = <<>>
    /\ sc_out = None
    /\ sc_done = FALSE

NextRoot ==
    \/ \E q \in RootQueries : SearchBegin(q)
    \/ \E i \in DOMAIN task : TaskWalk(i)
    \/ \E i \in DOMAIN task : TaskMergeFolders(i)
    \/ \E i \in DOMAIN task : TaskMergeFiles(i)
    \/ SearchCollect
    \/ SearchReturn

RootSpec == RootInit /\ [][NextRoot]_vars

-----------------------------------------------------------------------------
(* Discovery on other machines: a readable volume A: or none, the volume D: *)
(* readable, not readable or without a medium, a top-level entry Media on   *)
(* D:, and the entries Program Files and Games on C:, each a directory, a   *)
(* file or missing.                                                         *)

DiscoveryFs(a, d, m, p, g) ==
    [n \in Nodes |->
        IF Universe[n].path[1] = drive(65) THEN a
        ELSE IF Universe[n].path[1] = drive(68) /\ d = "none" THEN "none"
        ELSE IF Universe[n].path = <<drive(68)>> THEN d
        ELSE IF Universe[n].path = <<drive(68), s_Media>> THEN m
        ELSE IF Universe[n].path = <<drive(67), s_Program_Files>> THEN p
        ELSE IF Universe[n].path = <<drive(67), s_Games>> THEN g
        ELSE fs0[n]]

DiscoveryFsStates ==
    { DiscoveryFs(a, d, m, p, g) :
        a \in {"none", "dir"}, d \in {"dir", "locked", "none"},
        m \in {"none", "dir", "file", "locked"},
        p \in {"none", "dir", "file"}, g \in {"none", "dir", "file"} }

DiscoveryQueries == { q_n, q_w }

DiscoveryInit ==
    /\ \E f \in DiscoveryFsStates : EngineOn(f)
    /\ sc_name = <<>>
    /\ sc_query = <<>>
    /\ sc_out = None
    /\ sc_done = FALSE

NextDiscovery == \E q \in DiscoveryQueries : SearchShort(q)

DiscoverySpec == DiscoveryInit /\ [][NextDiscovery]_vars

-----------------------------------------------------------------------------
(* The hotkey manager: register, unregister, drop.  The two OS calls        *)
(* succeed or fail as the OS decides; a failed UnregisterHotKey leaves the  *)
(* hotkey registered, a failed RegisterHotKey registers nothing.            *)

\* a drop that makes no OS call: Thm_C21 does not hold of it
drop_unregisters_never(registered) == FALSE

\* Drop::drop calls unregister if self.registered (hotkey.rs 149-150)
drop_unregisters(registered) == registered

\* unregister (hotkey.rs 115-134) on the manager h, the OS call succeeding or not
unregister(h, os_ok) ==
    IF ~h.registered THEN [h EXCEPT !.ret = "Ok"]
    ELSE IF os_ok
         THEN [h EXCEPT !.registered = FALSE, !.HOTKEY_REGISTERED = FALSE,
                        !.os = <<>>, !.ret = "Ok"]
         ELSE [h EXCEPT !.ret = "Err"]

\* register (hotkey.rs 76-108): unregister first (an Err returns early through
\* the ?), then RegisterHotKey with the flags | MOD_NOREPEAT and the key code
register(h, modifier, key, unreg_ok, reg_ok) ==
    LET u == IF h.registered THEN unregister(h, unreg_ok) ELSE h
    IN  IF h.registered /\ u.ret = "Err" THEN u
        ELSE IF reg_ok
             THEN [u EXCEPT !.registered = TRUE, !.HOTKEY_REGISTERED = TRUE,
                            !.os = <<[fsModifiers |-> to_windows_flags(modifier) + MOD_NOREPEAT,
                                      vk |-> to_virtual_key(key)]>>,
                            !.ret = "Ok"]
             ELSE [u EXCEPT !.ret = "Err"]

HotkeyRegister(modifier, key, unreg_ok, reg_ok) ==
    /\ hk.alive
    /\ hk' = register(hk, modifier, key, unreg_ok, reg_ok)
    /\ UNCHANGED <<engineVars, scoreVars, loop, win>>

HotkeyUnregister(os_ok) ==
    /\ hk.alive
    /\ hk' = unregister(hk, os_ok)
    /\ UNCHANGED <<engineVars, scoreVars, loop, win>>

\* Drop for HotkeyManager (hotkey.rs 147-155): an Err of unregister is logged
\* ("warned"), nothing is returned
HotkeyDrop(os_ok) ==
    /\ hk.alive
    /\ hk' = IF drop_unregisters(hk.registered)
             THEN [unregister(hk, os_ok) EXCEPT
                      !.alive = FALSE,
                      !.ret = IF unregister(hk, os_ok).ret = "Err" THEN "warned" ELSE "none"]
             ELSE [hk EXCEPT !.alive = FALSE, !.ret = "none"]
    /\ UNCHANGED <<engineVars, scoreVars, loop, win>>

HotkeyInit ==
    /\ EngineInit
    /\ sc_name = <<>>
    /\ sc_query = <<>>
    /\ sc_out = None
    /\ sc_done = FALSE

NextHotkey ==
    \/ \E modifier \in Modifiers, key \in Keys, unreg_ok \in BOOLEAN, reg_ok \in BOOLEAN :
          HotkeyRegister(modifier, key, unreg_ok, reg_ok)
    \/ \E os_ok \in BOOLEAN : HotkeyUnregister(os_ok)
    \/ \E os_ok \in BOOLEAN : HotkeyDrop(os_ok)

HotkeySpec == HotkeyInit /\ [][NextHotkey]_vars

-----------------------------------------------------------------------------
(* The entry loop of one root task (search.rs 665-740), entry by entry, on  *)
(* a root of any size: what the walker yields next (an entry, an error, the *)
(* end) and whether an entry matches are the filesystem's choice.           *)

\* the Err items of one walk and the entries a root holds in these runs
MaxErrors == 1

MaxEntries == 302

\* a loop without the limit per path: Thm_C25 does not hold of it
over_limit_never(path_checked) == FALSE

\* if path_checked > max_per_path { break; } (696-698)
over_limit(path_checked) == path_checked > max_per_path

\* the root itself is scored before the loop (669-690): one Folder item if it
\* is a directory and its name matches
LoopRoot(matches) ==
    /\ loop.pc = "start"
    /\ loop' = [loop EXCEPT !.pc = "loop", !.pushed = IF matches THEN 1 ELSE 0]
    /\ UNCHANGED <<engineVars, scoreVars, hk, win>>

\* a loop that counts the entries that could not be read as well: Thm_C30 does
\* not hold of it
LoopError_counted ==
    /\ loop.pc = "loop"
    /\ loop.errors < MaxErrors
    /\ loop.path_checked < MaxEntries
    /\ loop' = IF over_limit(loop.path_checked + 1)
             THEN [loop EXCEPT !.errors = @ + 1, !.path_checked = @ + 1, !.pc = "done"]
             ELSE [loop EXCEPT !.errors = @ + 1, !.path_checked = @ + 1]
    /\ UNCHANGED <<engineVars, scoreVars, hk, win>>

\* the walker produces an Err: filter_map(|e| e.ok()) drops it (692)
LoopError ==
    /\ loop.pc = "loop"
    /\ loop.errors < MaxErrors
    /\ loop' = [loop EXCEPT !.errors = @ + 1]
    /\ UNCHANGED <<engineVars, scoreVars, hk, win>>

\* the walker yields an entry (692-740): kind is "root" for the root itself
\* (the first entry of a walk: continue, 701-704), "short" for a name the loop
\* skips (709-711), "match" for a name that scores (one push), "other" for one
\* that does not
LoopEntry(kind) ==
    /\ loop.pc = "loop"
    /\ loop.path_checked < MaxEntries
    /\ (kind = "root") = (loop.path_checked = 0)
    /\ loop' = IF over_limit(loop.path_checked + 1)
             THEN [loop EXCEPT !.path_checked = @ + 1, !.pc = "done"]
             ELSE [loop EXCEPT !.path_checked = @ + 1,
                             !.pushed = IF kind = "match" THEN @ + 1 ELSE @]
    /\ UNCHANGED <<engineVars, scoreVars, hk, win>>

\* the walker is exhausted: the loop ends
LoopEnd ==
    /\ loop.pc = "loop"
    /\ loop' = [loop EXCEPT !.pc = "done"]
    /\ UNCHANGED <<engineVars, scoreVars, hk, win>>

LoopInit ==
    /\ EngineInit
    /\ sc_name = <<>>
    /\ sc_query = <<>>
    /\ sc_out = None
    /\ sc_done = FALSE

NextLoop ==
    \/ \E matches \in BOOLEAN : LoopRoot(matches)
    \/ LoopError
    \/ \E kind \in {"root", "short", "match", "other"} : LoopEntry(kind)
    \/ LoopEnd

LoopSpec == LoopInit /\ [][NextLoop]_vars

-----------------------------------------------------------------------------
(* The scoring of one candidate on its own: search() normalizes the query  *)
(* and lower-cases it, then calculate_score scores one name against both   *)
(* (search.rs 455-461, 505-550).                                           *)

\* the names and the raw queries scored
ScoreNames ==
    { <<67, 97, 102, 233>>,   \* "Caf\xe9"
      <<67, 97, 102, 101>>,   \* "Cafe"
      <<67, 65, 70, 201>>,   \* "CAF\xc9"
      <<99, 97, 102, 101>>,   \* "cafe"
      <<83, 116, 114, 97, 223, 101>>,   \* "Stra\xdfe"
      <<83, 84, 82, 65, 83, 83, 69>>,   \* "STRASSE"
      <<115, 116, 114, 97, 115, 115, 101>>,   \* "strasse"
      <<78, 111, 116, 101, 112, 97, 100>>,   \* "Notepad"
      <<78, 79, 84, 69, 80, 65, 68>>,   \* "NOTEPAD"
      <<77, 121, 32, 78, 111, 116, 101, 115>>,   \* "My Notes"
      <<220, 98, 101, 114>>,   \* "\xdcber"
      <<85, 98, 101, 114>> }   \* "Uber"

ScoreQueries ==
    { <<99, 97, 102, 101>>,   \* "cafe"
      <<99, 97, 102, 233>>,   \* "caf\xe9"
      <<67, 65, 70, 201>>,   \* "CAF\xc9"
      <<223>>,   \* "\xdf"
      <<115, 115>>,   \* "ss"
      <<83, 83>>,   \* "SS"
      <<110, 111>>,   \* "no"
      <<78, 79>>,   \* "NO"
      <<252, 98, 101, 114>>,   \* "\xfcber"
      <<117>> }   \* "u"

InitScore ==
    /\ EngineInit
    /\ sc_name \in ScoreNames
    /\ sc_query \in ScoreQueries
    /\ sc_out = None
    /\ sc_done = FALSE

\* let normalized_query = normalize_for_search(query); let query_lower =
\* query.to_lowercase(); calculate_score(name, &normalized_query, &query_lower)
ScoreCandidate ==
    /\ ~sc_done
    /\ sc_out' = score_for_query(sc_name, sc_query)
    /\ sc_done' = TRUE
    /\ UNCHANGED <<sc_name, sc_query>>
    /\ UNCHANGED <<engineVars, hk, loop, win>>

NextScore == ScoreCandidate

ScoreSpec == InitScore /\ [][NextScore]_vars


-----------------------------------------------------------------------------
(* Properties of search(): what a returned GroupedResults looks like.      *)

\* the items of a bucket are in non-increasing order of score
NonIncreasing(s) == \A i \in 1..(Len(s) - 1) : s[i].score >= s[i + 1].score

\* no two items of a list have paths that are equal after lower-casing
DistinctLowerPaths(s) ==
    \A i, j \in DOMAIN s : i # j => path_lower(s[i].path) # path_lower(s[j].path)

\* the items a set of root tasks put in their local lists
TaskFolders == UNION { {task[i].path_results_folders[k] :
                          k \in DOMAIN task[i].path_results_folders} : i \in DOMAIN task }

TaskFiles == UNION { {task[i].path_results_files[k] :
                        k \in DOMAIN task[i].path_results_files} : i \in DOMAIN task }

\* C1: search("") returns the empty GroupedResults and starts no root task,
\* whatever the Application Index and the filesystem hold.
Thm_C1 ==
    (returned /\ query = <<>>) => (result = EmptyGrouped /\ task = <<>>)

\* an empty query was answered while the index held applications (all of which
\* the empty pattern matches)
Witness_C1 ==
    /\ returned /\ query = <<>> /\ pc = "idle"
    /\ Len(applications) > 5
    /\ fsChanges > 0

\* C2: a returned result holds at most 5 applications, 4 folders and 5 files.
Thm_C2 ==
    returned => /\ Len(result.applications) <= 5
                /\ Len(result.folders) <= 4
                /\ Len(result.files) <= 5

\* all three buckets are full although more candidates of each kind matched
Witness_C2 ==
    /\ returned /\ pc = "idle"
    /\ Len(result.applications) = 5 /\ Len(result.folders) = 4 /\ Len(result.files) = 5
    /\ Len(search_applications(applications, query)) > 5
    /\ Cardinality({path_lower(it.path) : it \in TaskFolders}) > 4
    /\ Cardinality({path_lower(it.path) : it \in TaskFiles}) > 5

\* C3 as stated: no two items of the same bucket, applications included, have
\* paths that are equal after lower-casing.
Claim_C3 ==
    returned => /\ DistinctLowerPaths(result.applications)
                /\ DistinctLowerPaths(result.folders)
                /\ DistinctLowerPaths(result.files)

\* C3, amended: no two items of the folders and files buckets, taken together,
\* have paths that are equal after lower-casing; the applications bucket is
\* filled from the index as it is.
Thm_C3 ==
    returned => DistinctLowerPaths(result.folders \o result.files)

\* a returned file was found by two roots under paths that differ only in case
Witness_C3 ==
    /\ returned
    /\ \E k \in DOMAIN result.files : \E a, b \in TaskFiles :
          /\ a.path # b.path
          /\ path_lower(a.path) = path_lower(b.path)
          /\ path_lower(a.path) = path_lower(result.files[k].path)

\* C4: each bucket of a returned result is in non-increasing order of score.
Thm_C4 ==
    returned => /\ NonIncreasing(result.applications)
                /\ NonIncreasing(result.folders)
                /\ NonIncreasing(result.files)

\* a returned bucket holds different scores, and some root task had found its
\* files in another order than that of the scores
Witness_C4 ==
    /\ returned
    /\ \E i \in DOMAIN result.files : result.files[i].score # result.files[1].score
    /\ \E i \in DOMAIN result.folders : result.folders[i].score # result.folders[1].score
    /\ \E i \in DOMAIN task : ~NonIncreasing(task[i].path_results_files)
    /\ \E i \in DOMAIN task : ~NonIncreasing(task[i].path_results_folders)

-----------------------------------------------------------------------------
(* Properties of the deduplication, the query guard, the walker and the    *)
(* index.                                                                  *)

\* item i of s is the first of s with its lower-cased path
FirstWithPath(s, i) ==
    \A j \in 1..(i - 1) : path_lower(s[j].path) # path_lower(s[i].path)

\* the items lo..hi of s that are the first of s with their lower-cased path
RECURSIVE FirstOccurrences(_, _, _)
FirstOccurrences(s, lo, hi) ==
    IF lo > hi THEN <<>>
    ELSE (IF FirstWithPath(s, lo) THEN <<s[lo]>> ELSE <<>>)
             \o FirstOccurrences(s, lo + 1, hi)

\* C5 as stated: of the merged folder collection, and of the merged file
\* collection, the deduplication keeps exactly the first item of each group of
\* items with the same lower-cased path, so that an item whose path occurs once
\* in its collection is kept.
Claim_C5 ==
    pc = "collected" =>
        /\ grouped.folders = FirstOccurrences(folders, 1, Len(folders))
        /\ grouped.files = FirstOccurrences(files, 1, Len(files))

\* C5, amended: the deduplication runs over the merged folders followed by the
\* merged files as one sequence and keeps exactly the first item of each group
\* of items with the same lower-cased path in it; an item whose path occurs
\* once in the two collections together is kept, and a file whose path a
\* kept folder has is dropped.
Thm_C5 ==
    pc = "collected" =>
        /\ grouped.folders = FirstOccurrences(folders \o files, 1, Len(folders))
        /\ grouped.files = FirstOccurrences(folders \o files, Len(folders) + 1,
                                            Len(folders) + Len(files))

\* the merged folders hold two items whose paths differ only in case, and a
\* merged file has the path of a merged folder
Witness_C5 ==
    /\ pc = "collected"
    /\ \E i, j \in DOMAIN folders :
          /\ i < j
          /\ folders[i].path # folders[j].path
          /\ path_lower(folders[i].path) = path_lower(folders[j].path)
    /\ \E i \in DOMAIN folders : \E j \in DOMAIN files :
          path_lower(folders[i].path) = path_lower(files[j].path)

\* C6 as stated: a query of one character, ASCII or not, runs only the
\* application lookup: no root task is started and the folders and files
\* buckets stay empty.
Claim_C6 ==
    Len(query) = 1 =>
        /\ pc = "idle"
        /\ task = <<>>
        /\ result.folders = <<>>
        /\ result.files = <<>>

\* a directory name the walker prunes: on the traversal denylist in lower case,
\* or starting with '.' or '$'
Pruned(name) ==
    \/ to_lowercase(name) \in TraversalDenylist
    \/ (name # <<>> /\ (name[1] = 46 \/ name[1] = 36))

\* no component of p below the root is pruned
CleanBelow(p, root) == \A k \in (Len(root) + 1)..Len(p) : ~Pruned(p[k])

\* the entries present below a root (the root included) that no pruned
\* directory lies on the way to, within the depth limit of the root
Reachable(f, root) ==
    {n \in Nodes :
        /\ f[n] # "none"
        /\ Len(root) <= Len(Universe[n].path)
        /\ Len(Universe[n].path) - Len(root) <= max_depth(root)
        /\ SubSeq(LowerPaths[n], 1, Len(root)) = path_lower(root)
        /\ CleanBelow(Universe[n].path, root)
        /\ n = node_of(Universe[n].path)}

\* C7: a directory below the root that is on the traversal denylist or whose
\* name starts with '.' or '$' is neither yielded nor descended into: no entry
\* at or below it is examined or counted against the cap of the root, and no
\* item found by a root task has such a directory among the components of
\* its path below the root.
Thm_C7 ==
    /\ \A i \in DOMAIN task :
          /\ \A k \in DOMAIN task[i].examined :
                CleanBelow(task[i].examined[k], unique_paths[i])
          /\ task[i].path_checked = Len(task[i].examined)
          /\ (fsChanges = 0 /\ task[i].pc # "pending" /\ exists(fs, unique_paths[i]))
                => task[i].path_checked = Cardinality(Reachable(fs, unique_paths[i]))
    /\ \A it \in TaskFolders \cup TaskFiles : CleanBelow(it.path, unique_paths[it.root])
    /\ \A k \in DOMAIN result.folders :
          CleanBelow(result.folders[k].path, unique_paths[result.folders[k].root])
    /\ \A k \in DOMAIN result.files :
          CleanBelow(result.files[k].path, unique_paths[result.files[k].root])

\* a root was walked below which a pruned directory holds a file that matches
\* the query, within the depth limit of the root
Witness_C7 ==
    /\ returned /\ result.files # <<>>
    /\ \E i \in DOMAIN task : \E n \in Nodes :
          /\ task[i].examined # <<>>
          /\ fs[n] = "file"
          /\ Len(Universe[n].path) - Len(unique_paths[i]) <= max_depth(unique_paths[i])
          /\ Len(Universe[n].path) > Len(unique_paths[i])
          /\ SubSeq(LowerPaths[n], 1, Len(unique_paths[i])) = path_lower(unique_paths[i])
          /\ ~CleanBelow(Universe[n].path, unique_paths[i])
          /\ ~Pruned(file_name(Universe[n].path))
          /\ score_for_query(file_name(Universe[n].path), query) # None

\* the noise tokens C8 names
ClaimNoiseTokens ==
    { <<117, 110, 105, 110, 115, 116, 97, 108, 108>>,   \* "uninstall"
      <<114, 101, 109, 111, 118, 101>>,   \* "remove"
      <<114, 101, 112, 97, 105, 114>>,   \* "repair"
      <<104, 101, 108, 112>>,   \* "help"
      <<114, 101, 97, 100, 109, 101>>,   \* "readme"
      <<108, 105, 99, 101, 110, 115, 101>> }   \* "license"

NoisyName(name) ==
    \/ \E tok \in ClaimNoiseTokens : Contains(to_lowercase(name), tok)
    \/ to_lowercase(name) = <<97, 98, 111, 117, 116>>   \* "about"

s_Google_Chrome == <<71, 111, 111, 103, 108, 101, 32, 67, 104, 114, 111, 109, 101>>   \* "Google Chrome"

\* C8: after construction and after every refresh, no entry of the index, and
\* so no application of any result, has a name that contains "uninstall",
\* "remove", "repair", "help", "readme" or "license" in any case or that is
\* "about" in any case; the shortcut "Google Chrome", which matches no noise
\* token, is indexed.
Thm_C8 ==
    /\ \A i \in DOMAIN applications : ~NoisyName(applications[i].name)
    /\ \A i \in DOMAIN result.applications : ~NoisyName(result.applications[i].name)
    /\ \E i \in DOMAIN applications : applications[i].name = s_Google_Chrome

\* the index was rebuilt by refresh() (it holds the shortcut that appeared
\* after construction) while the Start Menu held shortcuts with noisy names
Witness_C8 ==
    /\ \E i \in DOMAIN applications : applications[i].path = user_start \o <<s_Notion_lnk>>
    /\ \E n \in Nodes :
          /\ fs[n] = "file" /\ is_shortcut(Universe[n].path)
          /\ Contains(to_lowercase(file_name(Universe[n].path)), <<117, 110, 105, 110, 115, 116, 97, 108, 108>>)
    /\ \E n \in Nodes :
          /\ fs[n] = "file"
          /\ to_lowercase(display_name(Universe[n].path)) = s_about
    /\ \E i \in DOMAIN result.applications : result.applications[i].score > 0

-----------------------------------------------------------------------------
(* Properties of calculate_score under changes of case and of accents.     *)

\* str::to_uppercase on the modelled range: sharp s (223) becomes "SS", y with
\* diaeresis (255) leaves Latin-1, the other lower-case letters move by 32
upper_char(c) ==
    IF c >= 97 /\ c <= 122 THEN <<c - 32>>
    ELSE IF c = 223 THEN <<83, 83>>
    ELSE IF c = 255 THEN <<376>>
    ELSE IF c >= 224 /\ c <= 254 /\ c # 247 THEN <<c - 32>>
    ELSE <<c>>

to_uppercase(s) == Flatten([i \in DOMAIN s |-> upper_char(s[i])])

\* an accented letter replaced by its base letter: the letters whose canonical
\* decomposition is a base letter followed by combining marks
unaccent_char(c) ==
    CASE c = 233 -> 101   \* e acute -> e
      [] c = 201 -> 69    \* E acute -> E
      [] c = 252 -> 117   \* u diaeresis -> u
      [] c = 220 -> 85    \* U diaeresis -> U
      [] c = 241 -> 110   \* n tilde -> n
      [] c = 209 -> 78    \* N tilde -> N
      [] OTHER -> c

unaccent(s) == [i \in DOMAIN s |-> unaccent_char(s[i])]

\* C9 as stated: calculate_score gives the same outcome (no match, or the
\* same score) when the raw query is replaced by its upper-case form, and when
\* the name is replaced by its upper-case or by its lower-case form.
Claim_C9 ==
    sc_done =>
        /\ score_for_query(sc_name, to_uppercase(sc_query)) = sc_out
        /\ score_for_query(to_uppercase(sc_name), sc_query) = sc_out
        /\ score_for_query(to_lowercase(sc_name), sc_query) = sc_out

\* C10 as stated: replacing the accented characters of the name, or of the
\* query, by their base characters leaves the outcome of calculate_score
\* unchanged.
Claim_C10 ==
    sc_done =>
        /\ score_for_query(unaccent(sc_name), sc_query) = sc_out
        /\ score_for_query(sc_name, unaccent(sc_query)) = sc_out

\* C10, amended: replacing the accented characters of the name, or of the
\* query, by their base characters leaves the normalized form unchanged, and
\* with it the base fuzzy score and whether the candidate matches; the final
\* score can change, because the bonuses compare the lower-cased raw strings
\* and the length bonus counts the bytes of the raw name.
Thm_C10 ==
    sc_done =>
        /\ normalize_for_search(unaccent(sc_name)) = normalize_for_search(sc_name)
        /\ normalize_for_search(unaccent(sc_query)) = normalize_for_search(sc_query)
        /\ fuzzy_match(normalize_for_search(unaccent(sc_name)),
                       normalize_for_search(unaccent(sc_query)))
             = fuzzy_match(normalize_for_search(sc_name), normalize_for_search(sc_query))
        /\ (score_for_query(unaccent(sc_name), sc_query) = None) <=> (sc_out = None)
        /\ (score_for_query(sc_name, unaccent(sc_query)) = None) <=> (sc_out = None)

\* an accented name was scored and matched, and its unaccented form gets
\* another score for the same query
Witness_C10 ==
    /\ sc_done
    /\ unaccent(sc_name) # sc_name
    /\ sc_out # None
    /\ score_for_query(unaccent(sc_name), sc_query) # None
    /\ score_for_query(unaccent(sc_name), sc_query) # sc_out

-----------------------------------------------------------------------------
(* Properties of the bonuses of calculate_score.                            *)

\* the whitespace-delimited words of a string
Words(s) ==
    { SubSeq(s, p[1], p[2]) :
        p \in { p \in (DOMAIN s) \X (DOMAIN s) :
                  /\ p[1] <= p[2]
                  /\ \A k \in p[1]..p[2] : ~is_whitespace(s[k])
                  /\ (p[1] = 1 \/ is_whitespace(s[p[1] - 1]))
                  /\ (p[2] = Len(s) \/ is_whitespace(s[p[2] + 1])) } }

\* how a name matches a query: 3 if it equals the query, 2 if it only starts
\* with it, 1 if only a later word starts with it, 0 otherwise (the names and
\* the query compared in lower case)
MatchRank(name, q) ==
    IF to_lowercase(name) = to_lowercase(q) THEN 3
    ELSE IF IsPrefix(to_lowercase(q), to_lowercase(name)) THEN 2
    ELSE IF \E w \in Words(to_lowercase(name)) : IsPrefix(to_lowercase(q), w) THEN 1
    ELSE 0

\* the items of a returned result, of the three buckets
ReturnedItems ==
    { result.applications[i] : i \in DOMAIN result.applications }
    \cup { result.folders[i] : i \in DOMAIN result.folders }
    \cup { result.files[i] : i \in DOMAIN result.files }

\* the base fuzzy score of a returned item for the query
BaseScore(it) == fuzzy_match(normalize_for_search(it.name), normalize_for_search(query))[1]

\* the boost the item got for the volume of its root
BoostOf(it) == IF it.root = 0 THEN 0 ELSE drive_boost(unique_paths[it.root])

\* the score of a returned item less its base fuzzy score, the bonus for its
\* length and the boost of its root: what the way it matches contributes
MatchBonus(it) == it.score - BaseScore(it) - length_bonus(it.name) - BoostOf(it)

s_Notepad == <<78, 111, 116, 101, 112, 97, 100>>   \* "Notepad"

s_My_Notes == <<77, 121, 32, 78, 111, 116, 101, 115>>   \* "My Notes"

\* C11: of two returned items, the one that matches the query in the stronger
\* way (equal to it, then only starting with it, then only a later word
\* starting with it, then only a subsequence) has the strictly higher score
\* once the base fuzzy score, the name length and the boost are the same; and
\* for the query "note" the application "Notepad" is returned before "My Notes".
Thm_C11 ==
    (returned /\ query # <<>>) =>
        /\ \A a, b \in ReturnedItems :
             MatchRank(a.name, query) > MatchRank(b.name, query)
               => /\ MatchBonus(a) > MatchBonus(b)
                  /\ (/\ BaseScore(a) = BaseScore(b)
                      /\ str_len(a.name) = str_len(b.name)
                      /\ BoostOf(a) = BoostOf(b)) => a.score > b.score
        /\ query = q_note =>
             \E i, j \in DOMAIN result.applications :
                /\ result.applications[i].name = s_Notepad
                /\ result.applications[j].name = s_My_Notes
                /\ i < j

\* the query "note" was answered with items that match in each of the four
\* ways, "Notepad" and "My Notes" among the applications
Witness_C11 ==
    /\ returned /\ query = q_note /\ pc = "idle"
    /\ \A k \in 0..3 : \E it \in ReturnedItems : MatchRank(it.name, query) = k
    /\ \E i, j \in DOMAIN result.applications :
          /\ result.applications[i].name = s_Notepad
          /\ result.applications[j].name = s_My_Notes

-----------------------------------------------------------------------------
(* Properties of what is matched.                                           *)

\* the characters of p occur in s in the same order, not necessarily next to
\* each other
RECURSIVE OrderedSubsequence(_, _)
OrderedSubsequence(p, s) ==
    IF p = <<>> THEN TRUE
    ELSE IF s = <<>> THEN FALSE
    ELSE IF Head(p) = Head(s) THEN OrderedSubsequence(Tail(p), Tail(s))
    ELSE OrderedSubsequence(p, Tail(s))

\* the name matches the query: the normalized query is an ordered subsequence
\* of the normalized name
NameMatches(name, q) ==
    OrderedSubsequence(normalize_for_search(q), normalize_for_search(name))

\* C12: every item of a returned result, and every item a root task found or
\* merged, has a name whose normalized form contains the characters of the
\* normalized query as an ordered subsequence.
Thm_C12 ==
    /\ returned => \A it \in ReturnedItems : NameMatches(it.name, query)
    /\ \A it \in TaskFolders \cup TaskFiles : NameMatches(it.name, query)
    /\ \A k \in DOMAIN folders : NameMatches(folders[k].name, query)
    /\ \A k \in DOMAIN files : NameMatches(files[k].name, query)

\* a result with items in the three buckets, one of them matching without
\* holding the query as a substring, while an indexed application and an
\* examined entry that do not match were left out
Witness_C12 ==
    /\ returned /\ pc = "idle"
    /\ result.applications # <<>> /\ result.folders # <<>> /\ result.files # <<>>
    /\ \E it \in ReturnedItems :
          ~Contains(normalize_for_search(it.name), normalize_for_search(query))
    /\ \E k \in DOMAIN applications : ~NameMatches(applications[k].name, query)
    /\ \E i \in DOMAIN task : \E k \in DOMAIN task[i].examined :
          ~NameMatches(display_name(task[i].examined[k]), query)

-----------------------------------------------------------------------------
(* Termination of search().                                                 *)

\* C13: a search that was started for a non-empty query comes to its return
\* with every root task done, whatever the filesystem holds and however the
\* tasks meet at the two locks.
Thm_C13 ==
    (pc = "searching" /\ query # <<>>)
        ~> (pc = "idle" /\ returned /\ \A i \in DOMAIN task : task[i].pc = "done")

\* a search returned on a machine without the volume D: although a root was
\* missing, after at least two root tasks had taken the lock of the folders
\* and the lock of the files
Witness_C13 ==
    /\ returned /\ pc = "idle" /\ query # <<>>
    /\ ~exists(fs, <<drive(68)>>)
    /\ \E i \in DOMAIN task : ~exists(fs, unique_paths[i]) /\ task[i].pc = "done"
    /\ \E i, j \in DOMAIN task :
          /\ i # j
          /\ task[i].path_results_folders # <<>> /\ task[j].path_results_folders # <<>>
          /\ task[i].path_results_files # <<>> /\ task[j].path_results_files # <<>>

-----------------------------------------------------------------------------
(* Independence of the schedule of the root tasks.                          *)

\* what the root tasks find for the query when they run one after the other in
\* the order of the roots, on the filesystem as it is
SeqFolders(q) ==
    Flatten([i \in DOMAIN unique_paths |->
               root_task(fs, unique_paths[i], normalize_for_search(q),
                         to_lowercase(q), i).path_results_folders])

SeqFiles(q) ==
    Flatten([i \in DOMAIN unique_paths |->
               root_task(fs, unique_paths[i], normalize_for_search(q),
                         to_lowercase(q), i).path_results_files])

\* the items of that run that are left after the deduplication
SeqKept(q) == remove_duplicates(SeqFolders(q), SeqFiles(q))

\* no two items of the list have equal scores
DistinctScores(s) == \A i, j \in DOMAIN s : i # j => s[i].score # s[j].score

\* no two matching items of a bucket have equal scores
NoTies(q) ==
    /\ DistinctScores(search_applications(applications, q))
    /\ DistinctScores(SeqKept(q).folders)
    /\ DistinctScores(SeqKept(q).files)

\* the result of that run
SeqResult(q) ==
    [applications |->
        truncate(CHOOSE s \in sort_unstable_by_score(search_applications(applications, q)) :
                    TRUE, apps_cap),
     folders |-> truncate(CHOOSE s \in sort_unstable_by_score(SeqKept(q).folders) : TRUE,
                          folders_cap),
     files |-> truncate(CHOOSE s \in sort_unstable_by_score(SeqKept(q).files) : TRUE,
                        files_cap)]

\* an item as the caller gets it
Item(it) ==
    [name |-> it.name, path |-> it.path, result_type |-> it.result_type,
     score |-> it.score, description |-> it.description]

Items(g) ==
    [applications |-> [i \in DOMAIN g.applications |-> Item(g.applications[i])],
     folders |-> [i \in DOMAIN g.folders |-> Item(g.folders[i])],
     files |-> [i \in DOMAIN g.files |-> Item(g.files[i])]]

\* an item with its name, path and description in lower case
ItemLower(it) ==
    [name |-> to_lowercase(it.name), path |-> path_lower(it.path),
     result_type |-> it.result_type, score |-> it.score,
     description |-> to_lowercase(it.description)]

ItemsLower(g) ==
    [applications |-> [i \in DOMAIN g.applications |-> ItemLower(g.applications[i])],
     folders |-> [i \in DOMAIN g.folders |-> ItemLower(g.folders[i])],
     files |-> [i \in DOMAIN g.files |-> ItemLower(g.files[i])]]

\* C14 as stated: with no two matching items of a bucket scored equal, every
\* schedule of the root tasks returns the same GroupedResults: the one of the
\* run in which the tasks follow each other in the order of the roots.
Claim_C14 ==
    (returned /\ pc = "idle" /\ query # <<>> /\ NoTies(query))
        => Items(result) = Items(SeqResult(query))

\* C14, amended: with no two matching items of a bucket scored equal, every
\* schedule of the root tasks returns the same buckets up to the letter case
\* of the names, paths and descriptions: the same entries in the same order
\* with the same scores and result types.
Thm_C14 ==
    (returned /\ pc = "idle" /\ query # <<>> /\ NoTies(query))
        => ItemsLower(result) = ItemsLower(SeqResult(query))

\* a search without ties returned files of two volumes, one of them found by
\* two roots of which the later one had merged first
Witness_C14 ==
    /\ returned /\ pc = "idle" /\ query # <<>> /\ NoTies(query)
    /\ \E i, j \in DOMAIN result.files :
          result.files[i].path[1] # result.files[j].path[1]
    /\ \E k \in DOMAIN result.files : \E it \in TaskFiles :
          /\ path_lower(it.path) = path_lower(result.files[k].path)
          /\ it.root < result.files[k].root

-----------------------------------------------------------------------------
(* C15                                                                      *)

PathsOf(items) == {items[i].path : i \in DOMAIN items}

\* the entries a scan of the filesystem f produces: the user Start Menu's, then
\* the system-wide one's
ScanOf(f) ==
    index_directory(f, user_start)
    \o (IF exists(f, system_start) THEN index_directory(f, system_start) ELSE <<>>)

\* C15: refresh() first empties the index; once it has returned, and while the
\* Start Menu is as the refresh scanned it, the index is exactly what the scan
\* of that Start Menu produces: every entry names a shortcut that is there, no
\* path is held twice, and the number of entries is that of the scan, however
\* many refreshes ran before.
Thm_C15 ==
    /\ pc = "cleared" => applications = <<>>
    /\ (pc = "idle" /\ fsChanges = 0) =>
          /\ applications = ScanOf(fs)
          /\ \A i \in DOMAIN applications : kind_of(fs, applications[i].path) = "file"
          /\ Cardinality(PathsOf(applications)) = Len(applications)

\* a refresh has returned after a shortcut was removed: an earlier result still
\* shows the application, the index no longer holds it
Witness_C15 ==
    /\ pc = "idle" /\ fsChanges = 0
    /\ applications # <<>>
    /\ \E i \in DOMAIN result.applications :
          /\ result.applications[i].path \notin PathsOf(applications)
          /\ ~exists(fs, result.applications[i].path)

-----------------------------------------------------------------------------
(* C16                                                                      *)

StartMenus == {user_start, system_start}

\* a Start Menu directory that is there and can be read
Readable(f, d) == kind_of(f, d) = "dir"

\* the name of a shortcut file without its ".lnk"
ShortcutName(p) == SubSeq(file_name(p), 1, Len(file_name(p)) - 4)

\* the shortcut files of the filesystem f that lie at most index_max_depth
\* levels below the directory d, under directories that can be read
ShortcutsBelow(f, d) ==
    { Universe[n].path : n \in
        { n \in Nodes :
            /\ f[n] = "file"
            /\ IsPrefix(d, Universe[n].path)
            /\ Len(Universe[n].path) - Len(d) \in 1..index_max_depth
            /\ \A k \in Len(d)..(Len(Universe[n].path) - 1) :
                  kind_of(f, SubSeq(Universe[n].path, 1, k)) = "dir"
            /\ Len(file_name(Universe[n].path)) > 4
            /\ IsSuffix(s_dot_lnk, to_lowercase(file_name(Universe[n].path))) } }

ExpectedShortcuts(f) ==
    { p \in UNION {ShortcutsBelow(f, d) : d \in {d \in StartMenus : Readable(f, d)}} :
        ~NoisyName(ShortcutName(p)) }

\* C16: whatever the state of the two Start Menu directories (there, missing,
\* unreadable), an engine is constructed and no refresh returns an Err; once
\* construction or a refresh is over and the Start Menu has not changed since,
\* the index holds exactly the non-noise shortcuts of the readable directories.
Thm_C16 ==
    /\ pc # "failed"
    /\ (pc = "idle" /\ fsChanges = 0) => PathsOf(applications) = ExpectedShortcuts(fs)

\* a refresh is past the scan of a user Start Menu that is missing or cannot be
\* read, the system-wide one is readable and its shortcuts are about to be indexed
Witness_C16 ==
    /\ pc = "user_indexed"
    /\ fsChanges = 0
    /\ ~Readable(fs, user_start)
    /\ Readable(fs, system_start)
    /\ applications = <<>>
    /\ ExpectedShortcuts(fs) # {}

-----------------------------------------------------------------------------
(* C20                                                                      *)

\* refresh() has cleared the index and has not finished repopulating it
Repopulating == pc \in {"cleared", "user_indexed"}

-----------------------------------------------------------------------------
(* C17                                                                      *)

\* C17: no step of the engine (a search from its call to its return, a
\* refresh) and no change of the filesystem changes the configured search
\* paths or the roots discovered at construction, and the roots a running
\* search works on are the deduplicated chain of the two.
Thm_C17 ==
    /\ [](pc # "idle" => unique_paths = all_unique_paths(search_paths, extra_search_paths))
    /\ [][search_paths' = search_paths /\ extra_search_paths' = extra_search_paths]_vars

\* the filesystem has changed since construction, the index was refreshed (it
\* holds the shortcut that was added) and a search over the roots has returned
\* files and folders
Witness_C17 ==
    /\ pc = "idle"
    /\ fsChanges > 0
    /\ \E i \in DOMAIN applications : applications[i].path = user_start \o <<s_Notion_lnk>>
    /\ returned
    /\ result.folders # <<>>
    /\ result.files # <<>>
    /\ extra_search_paths # <<>>

-----------------------------------------------------------------------------
(* C18                                                                      *)

\* the place of the first item of produced that has the path p (0: none)
PlaceOf(produced, p) ==
    IF \E k \in DOMAIN produced : produced[k].path = p
    THEN CHOOSE k \in DOMAIN produced :
            /\ produced[k].path = p
            /\ \A m \in 1..(k - 1) : produced[m].path # p
    ELSE 0

\* items of out with equal scores are in the order they have in produced
KeepsOrder(out, produced) ==
    \A i, j \in DOMAIN out :
        (/\ i < j
         /\ out[i].score = out[j].score
         /\ PlaceOf(produced, out[i].path) > 0
         /\ PlaceOf(produced, out[j].path) > 0)
        => PlaceOf(produced, out[i].path) < PlaceOf(produced, out[j].path)

\* C18: in a returned result, applications with equal scores are in index
\* order; when search() sorts the folders and the files it has collected from
\* the shared vectors, items with equal scores keep the order they had there.
Claim_C18 ==
    /\ [](returned => KeepsOrder(result.applications, applications))
    /\ [][(pc = "collected" /\ pc' = "idle") =>
             /\ KeepsOrder(result'.folders, grouped.folders)
             /\ KeepsOrder(result'.files, grouped.files)]_vars

-----------------------------------------------------------------------------
(* C19                                                                      *)

SetOf(s) == {s[i] : i \in DOMAIN s}

\* the roots of the engine constructed on PairFs
PairRoots == all_unique_paths(config_search_paths, init_extra_search_paths(PairFs))

\* what the root tasks of a call find, for each query, when the call is alone
\* on the engine constructed on PairFs: folders and files
AloneFound ==
    [q \in PairQueries |->
        [folders |->
            SetOf(Flatten([i \in DOMAIN PairRoots |->
                root_task(PairFs, PairRoots[i], normalize_for_search(q),
                          to_lowercase(q), i).path_results_folders])),
         files |->
            SetOf(Flatten([i \in DOMAIN PairRoots |->
                root_task(PairFs, PairRoots[i], normalize_for_search(q),
                          to_lowercase(q), i).path_results_files]))]]

\* the applications buckets a call alone can return for each query
AloneApplications ==
    [q \in PairQueries |->
        { truncate(s, apps_cap) :
            s \in sort_unstable_by_score(
                     search_applications(index_applications(<<>>, PairFs), q)) }]

MinOf(a, b) == IF a < b THEN a ELSE b

\* bucket is a bucket that a call alone can return from the found items cand:
\* found items only, one per lower-cased path, by descending score, as many as
\* the cap allows, and no found item that was left out scores more than the last
AloneBucket(bucket, cand, cap) ==
    /\ SetOf(bucket) \subseteq cand
    /\ DistinctLowerPaths(bucket)
    /\ NonIncreasing(bucket)
    /\ Len(bucket) = MinOf(cap, Cardinality({path_lower(c.path) : c \in cand}))
    /\ \A c \in cand :
          (\A i \in DOMAIN bucket : path_lower(bucket[i].path) # path_lower(c.path))
              => (bucket # <<>> /\ c.score <= bucket[Len(bucket)].score)

\* r is a result that search(q) can return when it is the only call
CouldReturnAlone(r, q) ==
    /\ r.applications \in AloneApplications[q]
    /\ AloneBucket(r.folders, AloneFound[q].folders, folders_cap)
    /\ AloneBucket(r.files, AloneFound[q].files, files_cap)

\* C19: when two calls of search() overlap on one engine (whose index,
\* filesystem and roots stay as they were constructed), each of them returns a
\* result that it can return when it runs alone on that index and filesystem;
\* in particular every item of a call's result, and of the vectors its root
\* tasks have merged into so far, was found for that call's own query.
Thm_C19 ==
    /\ fs = PairFs
    /\ applications = index_applications(<<>>, PairFs)
    /\ all_unique_paths(search_paths, extra_search_paths) = PairRoots
    /\ (returned /\ pc = "idle") => CouldReturnAlone(result, query)
    /\ (peer.returned /\ peer.pc = "idle") => CouldReturnAlone(peer.result, peer.query)
    /\ pc = "searching" =>
          /\ SetOf(folders) \subseteq AloneFound[query].folders
          /\ SetOf(files) \subseteq AloneFound[query].files
    /\ peer.pc = "searching" =>
          /\ SetOf(peer.folders) \subseteq AloneFound[peer.query].folders
          /\ SetOf(peer.files) \subseteq AloneFound[peer.query].files

\* a call has returned files while the other call, for another query, is in
\* the middle of its merges and holds folders and a file that does not match
\* the first call's query
Witness_C19 ==
    /\ returned /\ pc = "idle"
    /\ result.files # <<>>
    /\ peer.pc = "searching"
    /\ peer.folders # <<>>
    /\ peer.query # query
    /\ \E i \in DOMAIN peer.files : ~NameMatches(peer.files[i].name, query)
    /\ \E i \in DOMAIN peer.task : peer.task[i].pc = "merge_files"

-----------------------------------------------------------------------------
(* C21                                                                      *)

-----------------------------------------------------------------------------
(* C22                                                                      *)

\* SearchConfig::default: max_results: 8 (config.rs 122)
max_results == 8

Total(g) == Len(g.applications) + Len(g.folders) + Len(g.files)

\* C22: a returned result holds at most SearchConfig.max_results items in its
\* three buckets together.
Claim_C22 == returned => Total(result) <= max_results

-----------------------------------------------------------------------------
(* C23                                                                      *)

\* how many times x occurs in the sequence s
Count(s, x) == Cardinality({k \in DOMAIN s : s[k] = x})

AllDone == \A i \in DOMAIN task : task[i].pc = "done"

\* the number of times x occurs in the local folder (file) lists of the tasks
\* in the set T
InFolderLists(T, x) ==
    SumSeq([i \in DOMAIN task |->
               IF i \in T THEN Count(task[i].path_results_folders, x) ELSE 0])

InFileLists(T, x) ==
    SumSeq([i \in DOMAIN task |->
               IF i \in T THEN Count(task[i].path_results_files, x) ELSE 0])

\* the tasks that are past the merge of their folders (files)
FoldersMerged ==
    {i \in DOMAIN task : task[i].pc \in {"merge_files", "extend_files", "done"}}

FilesMerged == {i \in DOMAIN task : task[i].pc = "done"}

\* C23: at every moment of a search the shared folder (file) vector holds each
\* item of the local lists of the tasks that have merged their folders (files)
\* as often as those lists hold it, and nothing else; so when all root tasks
\* are done it holds every item of every local list exactly once, and the
\* vectors are taken over (into_inner) only then.
Thm_C23 ==
    /\ pc = "searching" =>
          /\ \A x \in TaskFolders \cup SetOf(folders) :
                Count(folders, x) = InFolderLists(FoldersMerged, x)
          /\ \A x \in TaskFiles \cup SetOf(files) :
                Count(files, x) = InFileLists(FilesMerged, x)
    /\ (pc = "searching" /\ AllDone) =>
          /\ \A x \in TaskFolders : Count(folders, x) = 1
          /\ \A x \in TaskFiles : Count(files, x) = 1
          /\ Len(folders) = Cardinality(TaskFolders)
          /\ Len(files) = Cardinality(TaskFiles)
    /\ pc = "collected" => AllDone

\* all root tasks are done, three of them have merged files and two of them
\* folders, the last task to merge was not the last root
Witness_C23 ==
    /\ pc = "searching"
    /\ AllDone
    /\ Cardinality({i \in DOMAIN task : task[i].path_results_files # <<>>}) >= 3
    /\ Cardinality({i \in DOMAIN task : task[i].path_results_folders # <<>>}) >= 2
    /\ files[Len(files)].root # Len(task)
    /\ files[1].root # 1

-----------------------------------------------------------------------------
(* C24                                                                      *)

HoldsFolders(i) == task[i].pc = "extend_folders"

HoldsFiles(i) == task[i].pc = "extend_files"

\* C24: at most one root task holds the folder lock and at most one the file
\* lock, no task holds both; the only step a task takes while it holds a lock
\* is the append of its local list to that lock's vector, after which it holds
\* the lock no more: it reads no entry and changes no list of its own meanwhile,
\* and the entries of a root are read by a task that holds no lock.
Thm_C24 ==
    /\ [](/\ Cardinality({i \in DOMAIN task : HoldsFolders(i)}) <= 1
          /\ Cardinality({i \in DOMAIN task : HoldsFiles(i)}) <= 1
          /\ \A i \in DOMAIN task : ~(HoldsFolders(i) /\ HoldsFiles(i)))
    /\ [][\A i \in DOMAIN task :
            (pc = "searching" /\ pc' = "searching" /\ task'[i] # task[i]) =>
              /\ HoldsFolders(i) =>
                    /\ folders' = folders \o task[i].path_results_folders
                    /\ files' = files
                    /\ task'[i] = [task[i] EXCEPT !.pc = task'[i].pc]
                    /\ task'[i].pc \in {"merge_files", "done"}
              /\ HoldsFiles(i) =>
                    /\ files' = files \o task[i].path_results_files
                    /\ folders' = folders
                    /\ task'[i] = [task[i] EXCEPT !.pc = "done"]
              /\ (task'[i].examined # task[i].examined) => task[i].pc = "pending"]_vars

\* one task holds the folder lock while another one, back from its walk with
\* folders to merge, waits for it
Witness_C24 ==
    /\ pc = "searching"
    /\ \E i, j \in DOMAIN task :
          /\ HoldsFolders(i)
          /\ task[j].pc = "merge_folders"
          /\ task[j].examined # <<>>

-----------------------------------------------------------------------------
(* C25                                                                      *)

\* the entries the loop body has gone through with, past the limit check
Examined == IF loop.path_checked > max_per_path THEN max_per_path ELSE loop.path_checked

-----------------------------------------------------------------------------
(* C26: the depth of the walk of a root.                                    *)

\* the root is the root of a volume
VolumeRoot(root) == Len(root) = 1

\* the root lies on the primary volume, C:
OnPrimaryVolume(root) == to_lowercase(root[1]) = s_c_colon

DepthBound(root) ==
    IF VolumeRoot(root) /\ OnPrimaryVolume(root) THEN 2
    ELSE IF VolumeRoot(root) THEN 4
    ELSE 3

\* how many levels below the root the path p lies
DepthBelow(p, root) == Len(p) - Len(root)

\* the entries present below the root at the given depth
PresentAt(f, root, depth) ==
    {n \in Nodes :
        /\ f[n] # "none"
        /\ DepthBelow(Universe[n].path, root) = depth
        /\ SubSeq(LowerPaths[n], 1, Len(root)) = path_lower(root)}

ExaminedAt(i, depth) ==
    {k \in DOMAIN task[i].examined :
        DepthBelow(task[i].examined[k], unique_paths[i]) = depth}

-----------------------------------------------------------------------------
(* C27: the boost of the items found on a volume other than C:.             *)

\* the score the scoring engine gives the name of an item for the query
EngineScore(it) ==
    calculate_score(it.name, normalize_for_search(query), to_lowercase(query))

VolumeBoost(root) == IF OnPrimaryVolume(root) THEN 0 ELSE 100

\* the item matches and carries the score of the engine plus the boost of its root
Boosted(it) ==
    /\ EngineScore(it) # None
    /\ it.score = EngineScore(it)[1] + VolumeBoost(unique_paths[it.root])

\* the application item carries the score of the engine and nothing else
Unboosted(it) ==
    /\ score_for_query(it.name, query) # None
    /\ it.score = score_for_query(it.name, query)[1]

\* C27: every folder or file item produced by a root task has the score of the
\* scoring engine plus 100 when its root lies on a volume other than the primary
\* one, and plus 0 when its root lies on the primary volume; application items
\* never receive the boost.
Thm_C27 ==
    /\ \A it \in TaskFolders \cup TaskFiles : Boosted(it)
    /\ \A k \in DOMAIN folders : Boosted(folders[k])
    /\ \A k \in DOMAIN files : Boosted(files[k])
    /\ \A k \in DOMAIN result.folders : Boosted(result.folders[k])
    /\ \A k \in DOMAIN result.files : Boosted(result.files[k])
    /\ \A k \in DOMAIN grouped.applications : Unboosted(grouped.applications[k])
    /\ \A k \in DOMAIN result.applications : Unboosted(result.applications[k])

\* a search returned an item of a root on D:, an item of a root on C: and an
\* application
Witness_C27 ==
    /\ returned
    /\ result.applications # <<>>
    /\ \E it \in SetOf(result.folders) \cup SetOf(result.files) :
          /\ ~OnPrimaryVolume(unique_paths[it.root])
          /\ it.score = EngineScore(it)[1] + 100
    /\ \E it \in SetOf(result.folders) \cup SetOf(result.files) :
          /\ OnPrimaryVolume(unique_paths[it.root])
          /\ it.score = EngineScore(it)[1]

-----------------------------------------------------------------------------
(* C28: the root itself as a folder candidate.                              *)

\* the name of a root: its last component, nothing for the root of a volume
RootName(root) == IF Len(root) = 1 THEN <<>> ELSE root[Len(root)]

\* the root of task i is there, is a directory and its name matches the query
RootMatches(i) ==
    /\ kind_of(fs, unique_paths[i]) \in {"dir", "locked"}
    /\ score_for_query(RootName(unique_paths[i]), query) # None

\* the places of the list s that hold an item for the path p
PlacesOf(s, p) == {k \in DOMAIN s : s[k].path = p}

\* C28: if a root exists, is a directory and its name matches the query, its
\* task contributes exactly one Folder item for the root path, pushed before any
\* entry of the walk is examined (it is the first item of the task's folders)
\* and whether or not the traversal denylist lets the walk yield the root; the
\* root is not scored a second time when the walk yields it. A root that does
\* not match contributes no item for its own path.
Thm_C28 ==
    \A i \in DOMAIN task :
        /\ PlacesOf(task[i].path_results_files, unique_paths[i]) = {}
        /\ (task[i].pc # "pending" /\ fsChanges = 0) =>
              /\ RootMatches(i) =>
                    /\ PlacesOf(task[i].path_results_folders, unique_paths[i]) = {1}
                    /\ task[i].path_results_folders[1].result_type = "Folder"
                    /\ task[i].path_results_folders[1].name = RootName(unique_paths[i])
              /\ ~RootMatches(i) =>
                    PlacesOf(task[i].path_results_folders, unique_paths[i]) = {}
        /\ \A k \in DOMAIN task[i].examined :
              task[i].examined[k] = unique_paths[i] => k = 1

\* a root that matches was yielded by its walk and has descendants that match
\* after it, and a root on the traversal denylist, of which the walk yields
\* nothing, has its item all the same
Witness_C28 ==
    /\ \E i \in DOMAIN task :
          /\ RootMatches(i)
          /\ task[i].examined # <<>> /\ task[i].examined[1] = unique_paths[i]
          /\ Len(task[i].path_results_folders) > 1
          /\ PlacesOf(task[i].path_results_folders, unique_paths[i]) = {1}
          /\ returned
          /\ \E k \in DOMAIN result.folders : result.folders[k].path = unique_paths[i]
    /\ \E i \in DOMAIN task :
          /\ RootMatches(i)
          /\ Pruned(RootName(unique_paths[i]))
          /\ task[i].examined = <<>>
          /\ PlacesOf(task[i].path_results_folders, unique_paths[i]) = {1}

-----------------------------------------------------------------------------
(* C29: a root that is not there when the query runs.                       *)

\* an item without the note of which root task produced it
Unrooted(it) == [it EXCEPT !.root = 0]

UnrootedSeq(s) == [k \in DOMAIN s |-> Unrooted(s[k])]

\* the roots of the list that are there
PresentRoots(f, roots) == SelectSeq(roots, LAMBDA p : exists(f, p))

\* what the root tasks find for the query q when the search runs on the list
\* from which the missing roots were taken out: folders and files
FoundByPresent(f, paths, q) ==
    LET roots == PresentRoots(f, all_unique_paths(paths, init_extra_search_paths(f)))
    IN  [folders |->
            {Unrooted(it) : it \in
                SetOf(Flatten([i \in DOMAIN roots |->
                    root_task(f, roots[i], normalize_for_search(q),
                              to_lowercase(q), i).path_results_folders]))},
         files |->
            {Unrooted(it) : it \in
                SetOf(Flatten([i \in DOMAIN roots |->
                    root_task(f, roots[i], normalize_for_search(q),
                              to_lowercase(q), i).path_results_files]))}]

WithoutMissing ==
    [f \in RootFsStates |-> [paths \in RootConfigs |-> [q \in RootQueries |->
        FoundByPresent(f, paths, q)]]]

MissingRoots == {i \in DOMAIN unique_paths : ~exists(fs, unique_paths[i])}

\* C29: a root that does not exist when the query runs contributes no item and
\* raises no error (its task ends at once, having examined nothing), and the
\* items contributed by the other roots are the same as if the missing root
\* were not in the list: the shared vectors hold, once every task has ended,
\* exactly the items the search finds on the list without the missing roots,
\* and the result returned is one that search can return.
Thm_C29 ==
    /\ \A i \in MissingRoots :
          task[i].pc # "pending" =>
              /\ task[i].pc = "done"
              /\ task[i].examined = <<>>
              /\ task[i].path_checked = 0
              /\ task[i].path_results_folders = <<>>
              /\ task[i].path_results_files = <<>>
    /\ \A it \in SetOf(folders) \cup SetOf(files) \cup SetOf(result.folders)
                    \cup SetOf(result.files) : it.root \notin MissingRoots
    /\ (pc = "searching" /\ AllDone) =>
          /\ SetOf(UnrootedSeq(folders)) = WithoutMissing[fs][search_paths][query].folders
          /\ SetOf(UnrootedSeq(files)) = WithoutMissing[fs][search_paths][query].files
    /\ returned =>
          /\ AloneBucket(UnrootedSeq(result.folders),
                         WithoutMissing[fs][search_paths][query].folders, folders_cap)
          /\ AloneBucket(UnrootedSeq(result.files),
                         WithoutMissing[fs][search_paths][query].files, files_cap)

\* a search returned folders although one of its roots, whose name matches the
\* query and which is not the last of the list, is not there
Witness_C29 ==
    /\ returned
    /\ result.folders # <<>>
    /\ \E i \in MissingRoots :
          /\ task[i].pc = "done"
          /\ score_for_query(RootName(unique_paths[i]), query) # None
          /\ i < Len(unique_paths)
    /\ \E j \in DOMAIN task : j \notin MissingRoots /\ task[j].examined # <<>>

-----------------------------------------------------------------------------
(* C30: an entry that cannot be read during the walk of a root.             *)

\* the step is one in which the walker produced an error
ErrorStep == loop'.errors = loop.errors + 1

\* the loop can take a further entry from the walker
WalkGoesOn == ENABLED (\E kind \in {"root", "short", "match", "other"} : LoopEntry(kind))

-----------------------------------------------------------------------------
(* C31, C32: the roots discovery adds.                                      *)

\* the discovered roots that lie on the volume with the given letter
RootsOn(letter) ==
    {extra_search_paths[i] : i \in {k \in DOMAIN extra_search_paths :
                                       extra_search_paths[k][1] = drive(letter)}}

IsDirectory(p) == kind_of(fs, p) \in {"dir", "locked"}

\* the directories of the curated list on C:
CuratedOnC ==
    {home_dir, picture_dir, <<drive(67), s_Program_Files>>,
     <<drive(67), s_Program_Files_x86>>}
        \cup {<<drive(67), common_dirs[i]>> : i \in DOMAIN common_dirs}

\* C31 as it is stated: discovery never adds the root of the primary volume,
\* and what it adds from that volume is on the curated list, exists and is a
\* directory.
Claim_C31 ==
    /\ <<drive(67)>> \notin RootsOn(67)
    /\ \A p \in RootsOn(67) : p \in CuratedOnC /\ IsDirectory(p)

\* C31 as it holds: discovery never adds the root of the primary volume; from
\* that volume it adds the home and the pictures directory the environment
\* reports, whether they exist or not, the two Program Files paths when they
\* exist, whether they are directories or not, and the directories of the list
\* of common names that exist and are directories, and nothing else.
Thm_C31 ==
    /\ <<drive(67)>> \notin RootsOn(67)
    /\ fsChanges = 0 =>
          RootsOn(67) =
              {home_dir, picture_dir}
                  \cup {p \in {<<drive(67), s_Program_Files>>,
                               <<drive(67), s_Program_Files_x86>>} :
                           kind_of(fs, p) # "none"}
                  \cup {p \in {<<drive(67), common_dirs[i]>> : i \in DOMAIN common_dirs} :
                           IsDirectory(p)}

\* the engine was built where Games is a directory of C:, Program Files is a
\* file and the pictures directory is missing, and it has answered a query
Witness_C31 ==
    /\ returned
    /\ kind_of(fs, <<drive(67), s_Games>>) = "dir"
    /\ <<drive(67), s_Games>> \in RootsOn(67)
    /\ kind_of(fs, <<drive(67), s_Program_Files>>) = "file"
    /\ <<drive(67), s_Program_Files>> \in RootsOn(67)
    /\ kind_of(fs, picture_dir) = "none"
    /\ picture_dir \in RootsOn(67)

\* the top-level directories of a volume whose names the denylist leaves
TopLevelKept(letter) ==
    {Universe[n].path : n \in {k \in Nodes :
        /\ Len(Universe[k].path) = 2
        /\ Universe[k].path[1] = drive(letter)
        /\ fs[k] \in {"dir", "locked"}
        /\ to_lowercase(Universe[k].path[2]) \notin DiscoveryDenylist}}

Accessible(letter) == kind_of(fs, <<drive(letter)>>) = "dir"

\* C32: for every accessible volume other than the primary one and other than
\* A and B, the discovered roots contain the root of the volume and every
\* top-level directory of it whose lower-cased name is not on the discovery
\* denylist, and no top-level directory whose lower-cased name is on it;
\* the volumes A and B and the volumes that cannot be read contribute no root.
Thm_C32 ==
    fsChanges = 0 =>
        \A i \in DOMAIN logical_drives :
            logical_drives[i] # 67 =>
                RootsOn(logical_drives[i]) =
                    IF logical_drives[i] \notin {65, 66} /\ Accessible(logical_drives[i])
                    THEN {<<drive(logical_drives[i])>>} \cup TopLevelKept(logical_drives[i])
                    ELSE {}

\* the engine was built where A: and D: can be read and D: has the top-level
\* directories Media, Users and $RECYCLE.BIN: D:\ and D:\Media are roots, the
\* other two are not, and nothing of A: is
Witness_C32 ==
    /\ returned
    /\ Accessible(65) /\ IsDirectory(<<drive(65), s_Media>>) /\ RootsOn(65) = {}
    /\ Accessible(68)
    /\ IsDirectory(<<drive(68), s_Users>>) /\ IsDirectory(<<drive(68), s_RECYCLE_BIN>>)
    /\ RootsOn(68) = {<<drive(68)>>, <<drive(68), s_Media>>}

-----------------------------------------------------------------------------
(* C33: the category of the items of each bucket.                           *)

AllOfType(s, t) == \A k \in DOMAIN s : s[k].result_type = t

\* C33: every item of the applications bucket has category Application, every
\* item of the folders bucket has category Folder and every item of the files
\* bucket has category File, also when the filesystem changes while the query
\* is running.
Claim_C33 ==
    /\ AllOfType(result.applications, "Application")
    /\ AllOfType(result.folders, "Folder")
    /\ AllOfType(result.files, "File")

-----------------------------------------------------------------------------
(* C34: the entries of the Application Index.                               *)

\* the name without its last four characters, the dot and the extension
WithoutExtension(name) == SubSeq(name, 1, Len(name) - 4)

\* the path ends in the shortcut extension, in any letter case
HasShortcutExtension(p) ==
    /\ Len(p[Len(p)]) > 4
    /\ to_lowercase(SubSeq(p[Len(p)], Len(p[Len(p)]) - 3, Len(p[Len(p)]))) = s_dot_lnk

\* C34: every Application Index entry has category Application, a path whose
\* extension is the shortcut extension in any letter case, a display name equal
\* to the file name with the shortcut extension removed, and a description
\* equal to the name of its immediate parent directory.
Claim_C34 ==
    \A k \in DOMAIN applications :
        /\ applications[k].result_type = "Application"
        /\ HasShortcutExtension(applications[k].path)
        /\ applications[k].name =
               WithoutExtension(applications[k].path[Len(applications[k].path)])
        /\ applications[k].description =
               applications[k].path[Len(applications[k].path) - 1]

-----------------------------------------------------------------------------
(* C35: what truncation keeps.                                              *)

\* bucket is what sorting and truncating the candidates cand to the cap
\* leaves: candidates only, as many as the cap allows, and none of them scores
\* less than a candidate that was left out
KeepsBest(bucket, cand, cap) ==
    /\ SetOf(bucket) \subseteq SetOf(cand)
    /\ Len(bucket) = MinOf(cap, Len(cand))
    /\ \A c \in SetOf(cand) \ SetOf(bucket) :
          \A k \in DOMAIN bucket : bucket[k].score >= c.score

\* the step is one of search() in which the applications bucket is filled
FillsApplications ==
    /\ pc = "idle"
    /\ <<grouped, query, returned, pc>>' # <<grouped, query, returned, pc>>
    /\ query' # <<>>

\* the step is the one in which search() sorts and truncates the folders and
\* the files that search_files_and_folders has merged and deduplicated
FillsFoldersAndFiles == pc = "collected" /\ pc' = "idle"

\* C35: truncation keeps the best matches: for each bucket, every returned item
\* has a score greater than or equal to the score of every matching,
\* deduplicated candidate of that category that was not returned, and the
\* bucket is filled to its cap when there are candidates enough.
Thm_C35 ==
    [][ /\ FillsApplications =>
              KeepsBest(grouped'.applications,
                        search_applications(applications, query'), apps_cap)
        /\ FillsFoldersAndFiles =>
              /\ KeepsBest(result'.folders, grouped.folders, folders_cap)
              /\ KeepsBest(result'.files, grouped.files, files_cap)
              /\ result'.applications = grouped.applications ]_vars

\* each bucket of a returned result is full, and for each a candidate that
\* scores less than every item of the bucket was left out
Witness_C35 ==
    /\ returned /\ pc = "idle" /\ fsChanges = 0
    /\ Len(result.applications) = apps_cap
    /\ \E a \in SetOf(search_applications(applications, query)) :
          a.score < result.applications[apps_cap].score
    /\ Len(result.folders) = folders_cap
    /\ \E c \in TaskFolders : c.score < result.folders[folders_cap].score
    /\ Len(result.files) = files_cap
    /\ \E c \in TaskFiles : c.score < result.files[files_cap].score

-----------------------------------------------------------------------------
(* The window procedure (window.rs 590-1025): one action per message. The  *)
(* fields that only painting reads (the hover, the scroll offsets, the     *)
(* blink of the cursor, the icon cache) are left out.                      *)

\* the longest query typed, in characters
MaxQueryChars == 2

\* the characters WM_CHAR brings: "o", e with acute (two bytes in UTF-8) and
\* the carriage return of the Enter key
WinChars == {111, 233, 13}

\* what the clipboard holds at a Ctrl+V: nothing that can be read, "o", or a
\* line break followed by e with acute
ClipboardTexts == {None, Some(<<111>>), Some(<<13, 10, 233>>)}

\* the places of the results area a click can fall on: a column and a row of it
ClickCells == {<<"Application", 0>>, <<"Folder", 1>>, <<"File", 3>>, <<"File", 5>>}

\* the places of the input area a click can fall on, as calculate_cursor_from_x
\* counts them
ClickColumns == 0..1

\* a button release: a single click, or the second click of a double click,
\* the launch of which succeeds or fails
Releases == {"single", "double", "double_failed"}

\* char::is_alphanumeric || char::is_whitespace || char::is_ascii_punctuation
\* on the modelled range (window.rs 833)
is_typed_class(c) ==
    \/ (c >= 48 /\ c <= 57) \/ (c >= 65 /\ c <= 90) \/ (c >= 97 /\ c <= 122)
    \/ c \in {170, 181, 186} \/ (c >= 192 /\ c <= 255 /\ c \notin {215, 247})
    \/ c \in {9, 10, 11, 12, 13, 32, 133, 160}
    \/ (c >= 33 /\ c <= 47) \/ (c >= 58 /\ c <= 64) \/ (c >= 91 /\ c <= 96)
    \/ (c >= 123 /\ c <= 126)

\* what no message to the window touches
windowFrame == UNCHANGED <<engineVars, scoreVars, hk, loop>>

\* the window takes keyboard and mouse messages
focused == win.run = "running" /\ win.visible

\* create_and_run (window.rs 516-559): the state is boxed, the window is shown
WindowStart ==
    /\ win.run = "created"
    /\ win' = [show_window(win) EXCEPT !.run = "running"]
    /\ windowFrame

\* WM_TIMER with SEARCH_TIMER_ID (window.rs 675-690)
WmTimer ==
    /\ win.run = "running"
    /\ SEARCH_TIMER_ID \in win.timers
    /\ \E g \in search_answers(fs, search_paths, extra_search_paths, applications,
                               win.query) :
         win' = perform_search([win EXCEPT !.timers = win.timers \ {SEARCH_TIMER_ID},
                                           !.search_pending = FALSE], g)
    /\ windowFrame

\* WM_HOTKEY (window.rs 692-703)
WmHotkey ==
    /\ win.run = "running"
    /\ win' = IF win.visible THEN hide_window(win) ELSE show_window(win)
    /\ windowFrame

\* WM_COMMAND with ID_TRAY_SHOW (window.rs 629-634)
TrayShow ==
    /\ win.run = "running"
    /\ win' = show_window(win)
    /\ windowFrame

\* VK_ESCAPE (window.rs 717-719); WM_CLOSE does the same
KeyEscape ==
    /\ focused
    /\ win' = hide_window(win)
    /\ windowFrame

\* VK_UP (window.rs 720-723)
KeyUp ==
    /\ focused
    /\ win' = select_previous(win)
    /\ windowFrame

\* VK_DOWN (window.rs 724-727)
KeyDown ==
    /\ focused
    /\ win' = select_next(win)
    /\ windowFrame

\* WindowState::get_selected_result (window.rs 253-259)
get_selected_result(w) ==
    IF w.selected_index < Len(w.flat_results)
       /\ is_selectable(w.flat_results[w.selected_index + 1])
    THEN w.flat_results[w.selected_index + 1].item
    ELSE None

\* VK_RETURN (window.rs 728-734): launched says whether launcher::launch
\* succeeded
KeyReturn(launched) ==
    /\ focused
    /\ win' = IF get_selected_result(win) # None /\ ~launched THEN win
              ELSE hide_window(win)
    /\ windowFrame

\* VK_LEFT (window.rs 735-746)
KeyLeft(ctrl_pressed) ==
    /\ focused
    /\ win' = [win EXCEPT !.cursor_position =
                              IF ctrl_pressed THEN 0
                              ELSE IF win.cursor_position > 0
                                   THEN win.cursor_position - 1
                                   ELSE win.cursor_position,
                          !.selection_start = None, !.selection_end = None]
    /\ windowFrame

\* VK_RIGHT (window.rs 747-757)
KeyRight(ctrl_pressed) ==
    /\ focused
    /\ win' = [win EXCEPT !.cursor_position =
                              IF ctrl_pressed THEN str_len(win.query)
                              ELSE IF win.cursor_position < str_len(win.query)
                                   THEN win.cursor_position + 1
                                   ELSE win.cursor_position,
                          !.selection_start = None, !.selection_end = None]
    /\ windowFrame

\* cursor_position -= 1; query.remove(cursor_position) (window.rs 762-763)
remove_before(w) ==
    IF ~remove_ok(w.query, w.cursor_position - 1) THEN panicked(w)
    ELSE [w EXCEPT !.cursor_position = w.cursor_position - 1,
                   !.query = String_remove(w.query, w.cursor_position - 1)]

\* query.remove(cursor_position) (window.rs 772)
remove_at(w) ==
    IF ~remove_ok(w.query, w.cursor_position) THEN panicked(w)
    ELSE [w EXCEPT !.query = String_remove(w.query, w.cursor_position)]

\* VK_BACK (window.rs 758-767)
KeyBack ==
    /\ focused
    /\ win' = schedule_search(IF has_selection(win) THEN delete_selection(win)
                              ELSE IF win.cursor_position > 0 THEN remove_before(win)
                              ELSE win)
    /\ windowFrame

\* VK_DELETE (window.rs 768-777)
KeyDelete ==
    /\ focused
    /\ win' = schedule_search(IF has_selection(win) THEN delete_selection(win)
                              ELSE IF win.cursor_position < str_len(win.query)
                                   THEN remove_at(win)
                                   ELSE win)
    /\ windowFrame

\* VK_A with Ctrl (window.rs 777-783)
KeySelectAll ==
    /\ focused
    /\ win' = select_all(win)
    /\ windowFrame

\* VK_V with Ctrl (window.rs 794-811)
KeyPaste(clipboard) ==
    /\ focused
    /\ Len(win.query) < MaxQueryChars
    /\ win' = IF clipboard = None THEN win
              ELSE schedule_search(insert_text(delete_selection(win), clipboard[1]))
    /\ windowFrame

\* WM_CHAR without Ctrl (window.rs 820-850)
WmChar(c) ==
    /\ focused
    /\ Len(win.query) < MaxQueryChars
    /\ win' = IF is_typed_class(c) /\ c \notin {13, 10, 8}
              THEN schedule_search(insert_char(delete_selection(win), c))
              ELSE win
    /\ windowFrame

\* WM_LBUTTONDOWN in the input area (window.rs 866-880): cursor_idx is what
\* calculate_cursor_from_x returns (1645-1675), an index into the UTF-16 text
LButtonDownInput(cursor_idx) ==
    /\ focused
    /\ cursor_idx <= utf16_len(win.query)
    /\ win' = [win EXCEPT !.is_selecting = TRUE, !.cursor_position = cursor_idx,
                          !.selection_start = Some(cursor_idx),
                          !.selection_end = Some(cursor_idx)]
    /\ windowFrame

\* WM_LBUTTONDOWN elsewhere (window.rs 881-893)
LButtonDownResult(result_type, item_index) ==
    /\ focused
    /\ win' = IF find_clicked_result_index(win, result_type, item_index) = None
              THEN win
              ELSE [win EXCEPT !.selected_index =
                       find_clicked_result_index(win, result_type, item_index)[1]]
    /\ windowFrame

\* WM_MOUSEMOVE during a selection (window.rs 906-918)
MouseMove(cursor_idx) ==
    /\ focused
    /\ win.is_selecting
    /\ cursor_idx <= utf16_len(win.query)
    /\ win' = [win EXCEPT !.cursor_position = cursor_idx,
                          !.selection_end = Some(cursor_idx)]
    /\ windowFrame

\* WM_LBUTTONUP (window.rs 965-1007): the end of a selection, a single click
\* on a result, or the second click of a double click, which launches it
LButtonUp(result_type, item_index, release) ==
    /\ focused
    /\ win' = IF win.is_selecting THEN [win EXCEPT !.is_selecting = FALSE]
              ELSE IF find_clicked_result_index(win, result_type, item_index) = None
                   THEN win
              ELSE IF release = "double" THEN hide_window(win)
              ELSE IF release = "double_failed" THEN win
              ELSE [win EXCEPT !.selected_index =
                       find_clicked_result_index(win, result_type, item_index)[1]]
    /\ windowFrame

NextWindow ==
    \/ WindowStart
    \/ WmTimer
    \/ WmHotkey
    \/ TrayShow
    \/ KeyEscape
    \/ KeyUp
    \/ KeyDown
    \/ \E launched \in BOOLEAN : KeyReturn(launched)
    \/ \E ctrl_pressed \in BOOLEAN : KeyLeft(ctrl_pressed)
    \/ \E ctrl_pressed \in BOOLEAN : KeyRight(ctrl_pressed)
    \/ KeyBack
    \/ KeyDelete
    \/ KeySelectAll
    \/ \E clipboard \in ClipboardTexts : KeyPaste(clipboard)
    \/ \E c \in WinChars : WmChar(c)
    \/ \E cursor_idx \in ClickColumns : LButtonDownInput(cursor_idx)
    \/ \E cell \in ClickCells : LButtonDownResult(cell[1], cell[2])
    \/ \E cursor_idx \in ClickColumns : MouseMove(cursor_idx)
    \/ \E cell \in ClickCells, release \in Releases :
         LButtonUp(cell[1], cell[2], release)

\* the window alone: the engine it holds is the one new() built
WindowSpec == Init /\ [][NextWindow]_vars

\* the messages that reach the text of the input, the debounce timer, the
\* results or the visibility: all but the moves of the selected result
NextInput ==
    \/ WindowStart
    \/ WmTimer
    \/ WmHotkey
    \/ TrayShow
    \/ KeyEscape
    \/ \E launched \in BOOLEAN : KeyReturn(launched)
    \/ \E ctrl_pressed \in BOOLEAN : KeyLeft(ctrl_pressed)
    \/ \E ctrl_pressed \in BOOLEAN : KeyRight(ctrl_pressed)
    \/ KeyBack
    \/ KeyDelete
    \/ KeySelectAll
    \/ \E clipboard \in ClipboardTexts : KeyPaste(clipboard)
    \/ \E c \in WinChars : WmChar(c)
    \/ \E cursor_idx \in ClickColumns : LButtonDownInput(cursor_idx)
    \/ \E cursor_idx \in ClickColumns : MouseMove(cursor_idx)
    \/ \E cell \in ClickCells : LButtonUp(cell[1], cell[2], "double")

\* WmTimer can be taken
WmTimerEnabled == win.run = "running" /\ SEARCH_TIMER_ID \in win.timers

\* what a step of WmTimer shows: the timer goes, the text and the window stay
TimerGone ==
    /\ SEARCH_TIMER_ID \in win.timers /\ SEARCH_TIMER_ID \notin win'.timers
    /\ win'.query = win.query /\ win'.visible = win.visible

\* the system timer fires once its interval has run: weak fairness of WmTimer,
\* with its guard in the place of ENABLED
FairWindowSpec ==
    /\ Init /\ [][NextInput]_vars
    /\ ([]<>~WmTimerEnabled \/ []<><<TimerGone /\ WmTimer>>_vars)

-----------------------------------------------------------------------------
(* C36: the debounce of the search.                                        *)

\* the debounce timer is armed
Armed == SEARCH_TIMER_ID \in win.timers

\* the window displays an answer of the engine to the text of the input
Fresh ==
    /\ win.grouped_results \in search_answers(fs, search_paths, extra_search_paths,
                                              applications, win.query)
    /\ win.flat_results = flatten_with_sections(win.grouped_results)

\* a message changed the text of the input and left the window open
Edited == win'.query # win.query /\ win'.visible

\* C36, first part: a visible window with no debounce timer armed displays
\* the results of a search on the text of its input, none for the empty text
DisplayedAreCurrent == (win.visible /\ ~Armed) => Fresh

\* C36, second part: an edit that leaves a text arms the timer, whether one
\* was pending or not, and the search run when the timer fires answers the
\* text as it is then
EditArmsFireSearches ==
    /\ (Edited /\ win'.query # <<>>) => Armed'
    /\ TimerGone =>
         \E g \in {win'.grouped_results} :
           /\ g \in search_answers(fs, search_paths, extra_search_paths,
                                   applications, win.query)
           /\ win'.flat_results = flatten_with_sections(g)

-----------------------------------------------------------------------------
(* C37: search_pending and the debounce timer.                             *)

\* C37: search_pending is true exactly when the debounce timer is armed
Claim_C37 == win.search_pending <=> (SEARCH_TIMER_ID \in win.timers)

-----------------------------------------------------------------------------
(* C38: the selected entry.                                                *)

\* C38: whenever the flattened list is not empty, selected_index is within
\* its bounds and is the index of an Item, never of a section header
Thm_C38 ==
    win.flat_results # <<>> =>
        /\ win.selected_index < Len(win.flat_results)
        /\ is_selectable(win.flat_results[win.selected_index + 1])

\* the selection has moved past the header of a second section
Witness_C38 ==
    /\ win.flat_results # <<>>
    /\ \E i \in 1..win.selected_index :
         i < Len(win.flat_results) /\ ~is_selectable(win.flat_results[i + 1])

-----------------------------------------------------------------------------
(* C39: the cursor of the input.                                           *)

\* C39: cursor_position is at most the length of the query and on a character
\* boundary of it, and no insertion or removal at the cursor has failed
Claim_C39 ==
    /\ win.cursor_position <= str_len(win.query)
    /\ win.cursor_position \in char_boundaries(win.query)
    /\ win.run # "panicked"

====
